---- MODULE Spec2Model ----
(***************************************************************************)
(* Model of the trade pass of recorder() in src/recorder.py: the loop over *)
(* today's trade objects (lines 188-396) that builds the `trades`          *)
(* dictionary, one row per ticker plus a `ticker*` row for the sell leg of *)
(* a rollover, from yesterday's ledger `yespos` and the fills of every     *)
(* order.  A dictionary is a function whose DOMAIN is its key set; a       *)
(* column a row does not have yet is a key outside the DOMAIN, and         *)
(* dict.update(d) is d @@ row.                                             *)
(* The whole of recorder() (lines 82-574) is modelled on top of it: the    *)
(* trading-day test, the files of ./data, the trade pass as one step, the  *)
(* portfolio pass, the post-close adjustment and the saves, over one run   *)
(* (SpecRun) and over sequences of runs on the days of a calendar          *)
(* (SpecRuns).                                                             *)
(***************************************************************************)
EXTENDS Integers, Sequences, FiniteSets, TLC

\* ------------------------------------------------------------------ bounds
MaxTrades == 1      \* trade objects handled in one run
MaxFills == 2       \* fills handled in one run, over all trades
MaxYes == 2         \* rows of yesterday's ledger
MaxDayTrades == 2   \* trade objects of a day with a stock and an option order
MaxDayFills == 3    \* fills of such a day, over both orders
MaxItems == 2       \* items of a portfolio snapshot
MaxRuns == 2        \* runs of recorder() in a sequence of runs
MaxLots == 2        \* contracts, and round lots of shares, of one order
MaxOps == 2         \* calls of trading functions in one session
MaxStrikes == 3     \* strikes of an option chain in the price window
MaxOrders == 2      \* rows of a manifest

\* ------------------------------------------------------------------ inputs
\* The value pandas holds in a cell that was never set.
NaN == -1000000

Sides == {"BOT", "SLD"}

\* The symbol today's orders trade; yesterday's ledger also has other tickers.
Symbols == {"A"}

\* comboLegs[i].ratio and comboLegs[i].action of a Bag contract.
Ratios == {1, 2, 100}
LegActions == {"BUY", "SELL"}
ComboLegs == [ratio : Ratios, action : LegActions]

Stock(sym) == [type |-> "Stock", symbol |-> sym]

Option(sym, k, doe) ==
    [type |-> "Option", symbol |-> sym, strike |-> k,
     lastTradeDateOrContractMonth |-> doe, multiplier |-> 100]

Bag(sym, l0, l1) == [type |-> "Bag", symbol |-> sym, comboLegs |-> <<l0, l1>>]

\* The held call and the call a rollover writes.
Options(sym) == {Option(sym, 50, 20230721), Option(sym, 55, 20230818)}

\* The option contract of a Bag's fill: every fill of one combo leg has
\* the leg's contract and the leg's side, a bought leg is the held call
\* and a sold leg the new call.
LegOption(sym, side) ==
    IF side = "BOT" THEN Option(sym, 50, 20230721) ELSE Option(sym, 55, 20230818)

\* Every Bag contract over the leg descriptors.
Bags == {Bag(s, l0, l1) : s \in Symbols, l0 \in ComboLegs, l1 \in ComboLegs}

\* The Bag orders the trading modules place: a rollover (buy back the held
\* call, sell the new one), a buy-write (buy 100 shares, sell one call), and
\* a combo of neither shape.
PlacedBags ==
    {Bag(s, l.a, l.b) : s \in Symbols,
        l \in {[a |-> [ratio |-> 1, action |-> "BUY"], b |-> [ratio |-> 1, action |-> "SELL"]],
               [a |-> [ratio |-> 100, action |-> "BUY"], b |-> [ratio |-> 1, action |-> "SELL"]],
               [a |-> [ratio |-> 2, action |-> "BUY"], b |-> [ratio |-> 1, action |-> "SELL"]]}}

Contracts == UNION {{Stock(s)} \cup Options(s) : s \in Symbols} \cup PlacedBags

\* execution + commission report of one fill: shares is unsigned, side
\* carries the direction; time is the New York date and minute.
Executions ==
    {[shares |-> 1, price |-> 3, commission |-> 1, realizedPNL |-> 0, time |-> 1],
     [shares |-> 2, price |-> 4, commission |-> 2, realizedPNL |-> 7, time |-> 2]}

Fill(con, side, e) ==
    [contract |-> con, side |-> side, shares |-> e.shares, price |-> e.price,
     commission |-> e.commission, realizedPNL |-> e.realizedPNL, time |-> e.time]

\* Rows of yesterday's ledger: a long stock with a short call, a short
\* stock without an option, and another ticker.
YesLong ==
    ("ticker" :> "A") @@ ("Underlying size" :> 1) @@ ("price" :> 21)
    @@ ("trade price" :> 22) @@ ("leg price" :> 23) @@ ("option price" :> 24)
    @@ ("option trade price" :> 25)

YesShort ==
    ("ticker" :> "A") @@ ("Underlying size" :> -1) @@ ("price" :> 31)
    @@ ("trade price" :> 32) @@ ("leg price" :> 33) @@ ("option price" :> NaN)
    @@ ("option trade price" :> NaN)

YesOther ==
    ("ticker" :> "B") @@ ("Underlying size" :> 1) @@ ("price" :> 41)
    @@ ("trade price" :> 42) @@ ("leg price" :> 43) @@ ("option price" :> 44)
    @@ ("option trade price" :> 45)

YesRows == {YesLong, YesShort, YesOther}

Ledgers == UNION {[1..n -> YesRows] : n \in 0..MaxYes}

AccountValues == {1000}

\* ------------------------------------------------------------------ helpers
\* str.startswith
StartsWith(s, p) == Len(s) >= Len(p) /\ SubSeq(s, 1, Len(p)) = p

\* max() of a pandas column
RECURSIVE SeqMax(_)
SeqMax(s) ==
    IF Len(s) = 1 THEN s[1]
    ELSE LET m == SeqMax(Tail(s)) IN IF m > s[1] THEN m ELSE s[1]

\* yespos.loc[yespos['ticker'] == sym]
Filt(yes, sym) == SelectSeq(yes, LAMBDA r : r["ticker"] = sym)

\* yespos.loc[filt, col]
Column(rows, col) == [i \in 1..Len(rows) |-> rows[i][col]]

\* A cell of the row as the reindexed DataFrame shows it.
Cell(row, col) == IF col \in DOMAIN row THEN row[col] ELSE NaN

\* ------------------------------------------------ the three order branches
\* Every branch takes the `trades` dictionary, yesterday's ledger, the
\* account value, the order's contract qqq, the bound local variables of
\* recorder() (loc) and one fill, and gives the dictionary and the locals
\* after the fill, with the key of the row the fill posted to.
\* OptionOnlyFill that gives a CLOSE CC today's execution price as its
\* option trade price.
OptionOnlyFill_CloseAtMarket(trd, yes, acct, qqq, loc, fill) ==
    LET row == trd[qqq.symbol]
        option_shares == IF fill.side = "SLD" THEN -fill.shares ELSE fill.shares
        filt == Filt(yes, qqq.symbol)
        had_option == /\ fill.side = "BOT"
                      /\ Len(filt) = 1
                      /\ filt[1]["option price"] # NaN
                      /\ filt[1]["price"] # NaN
        side_action ==
            IF fill.side = "SLD" THEN "SELL CC"
            ELSE IF had_option THEN "CLOSE CC" ELSE "BUY CALL"
        action == IF "Underlying size" \in DOMAIN row
                  THEN row["action"] \o " " \o side_action
                  ELSE side_action
        commission == (IF "Commission" \in DOMAIN row THEN row["Commission"] ELSE 0)
                      + fill.commission
        d == ("DOE" :> qqq.lastTradeDateOrContractMonth) @@ ("strike" :> qqq.strike)
             @@ ("option price" :> fill.price)
             @@ ("option trade price" :> fill.price)
             @@ ("acct bal" :> acct) @@ ("Option size" :> option_shares)
             @@ ("P/L option" :> fill.realizedPNL)
             @@ ("date" :> fill.time) @@ ("time" :> fill.time)
             @@ ("action" :> action) @@ ("Commission" :> commission)
    IN  [trades |-> [trd EXCEPT ![qqq.symbol] = d @@ row],
         key |-> qqq.symbol,
         loc |-> ("action" :> action) @@ ("commission" :> commission)
                 @@ ("option_trade_price" :> fill.price) @@ loc]

\* Option-only order, one fill (lines 195-232).
OptionOnlyFill(trd, yes, acct, qqq, loc, fill) ==
    LET row == trd[qqq.symbol]
        option_shares == IF fill.side = "SLD" THEN -fill.shares ELSE fill.shares
        filt == Filt(yes, qqq.symbol)
        had_option == /\ fill.side = "BOT"
                      /\ Len(filt) = 1
                      /\ filt[1]["option price"] # NaN
                      /\ filt[1]["price"] # NaN
        option_trade_price ==
            IF had_option THEN filt[1]["option trade price"] ELSE fill.price
        side_action ==
            IF fill.side = "SLD" THEN "SELL CC"
            ELSE IF fill.side = "BOT"
                 THEN (IF had_option THEN "CLOSE CC" ELSE "BUY CALL")
                 ELSE "UNKNOWN"
        action == IF "Underlying size" \in DOMAIN row
                  THEN row["action"] \o " " \o side_action
                  ELSE side_action
        commission == (IF "Commission" \in DOMAIN row THEN row["Commission"] ELSE 0)
                      + fill.commission
        d == ("DOE" :> qqq.lastTradeDateOrContractMonth) @@ ("strike" :> qqq.strike)
             @@ ("option price" :> fill.price)
             @@ ("option trade price" :> option_trade_price)
             @@ ("acct bal" :> acct) @@ ("Option size" :> option_shares)
             @@ ("P/L option" :> fill.realizedPNL)
             @@ ("date" :> fill.time) @@ ("time" :> fill.time)
             @@ ("action" :> action) @@ ("Commission" :> commission)
    IN  [trades |-> [trd EXCEPT ![qqq.symbol] = d @@ row],
         key |-> qqq.symbol,
         loc |-> ("action" :> action) @@ ("commission" :> commission)
                 @@ ("option_trade_price" :> option_trade_price) @@ loc]

\* StockBasis without the test for a purchase that closes a short: every
\* purchase takes the execution price.
StockBasis_NoCloseShort(yes, sym, fill, under_shares) ==
    LET filt == Filt(yes, sym)
        carried == [leg_price |-> SeqMax(Column(filt, "leg price")),
                    trade_price |-> SeqMax(Column(filt, "trade price"))]
        fresh == [leg_price |-> fill.price, trade_price |-> fill.price]
    IN  IF fill.side = "BOT" THEN fresh
        ELSE IF Len(filt) >= 1 THEN carried ELSE fresh

\* StockBasis with a zero basis for a sale that has no row yesterday.
StockBasis_ZeroShort(yes, sym, fill, under_shares) ==
    LET filt == Filt(yes, sym)
        carried == [leg_price |-> SeqMax(Column(filt, "leg price")),
                    trade_price |-> SeqMax(Column(filt, "trade price"))]
        fresh == [leg_price |-> fill.price, trade_price |-> fill.price]
    IN  IF fill.side = "BOT"
        THEN IF Len(filt) = 0 THEN fresh
             ELSE IF under_shares = -filt[1]["Underlying size"] THEN carried
                  ELSE fresh
        ELSE IF Len(filt) >= 1 THEN carried
             ELSE [leg_price |-> 0, trade_price |-> 0]

\* StockBasis with a zero basis for a purchase that has no row yesterday.
StockBasis_OpenAtZero(yes, sym, fill, under_shares) ==
    LET filt == Filt(yes, sym)
        carried == [leg_price |-> SeqMax(Column(filt, "leg price")),
                    trade_price |-> SeqMax(Column(filt, "trade price"))]
        fresh == [leg_price |-> fill.price, trade_price |-> fill.price]
    IN  IF fill.side = "BOT"
        THEN IF Len(filt) = 0 THEN [leg_price |-> 0, trade_price |-> 0]
             ELSE IF under_shares = -filt[1]["Underlying size"] THEN carried
                  ELSE fresh
        ELSE IF Len(filt) >= 1 THEN carried ELSE fresh

\* trade price and leg price of a stock-only fill (lines 273-297).
StockBasis(yes, sym, fill, under_shares) ==
    LET filt == Filt(yes, sym)
        carried == [leg_price |-> SeqMax(Column(filt, "leg price")),
                    trade_price |-> SeqMax(Column(filt, "trade price"))]
        fresh == [leg_price |-> fill.price, trade_price |-> fill.price]
    IN  IF fill.side = "BOT"
        THEN IF Len(filt) = 0 THEN fresh
             ELSE IF under_shares = -filt[1]["Underlying size"] THEN carried
                  ELSE fresh
        ELSE IF Len(filt) >= 1 THEN carried ELSE fresh

\* Stock-only order, one fill (lines 239-308).
StockOnlyFill(trd, yes, acct, qqq, loc, fill) ==
    LET row == trd[qqq.symbol]
        this_shares == IF fill.side = "SLD" THEN -fill.shares ELSE fill.shares
        under_shares == IF "Underlying size" \in DOMAIN row
                        THEN row["Underlying size"] + this_shares
                        ELSE this_shares
        PNLunderlyingleg0 == IF "P/L underlying leg" \in DOMAIN row
                             THEN row["P/L underlying leg"] ELSE 0
        PNLunderlying0 == IF "P/L underlying" \in DOMAIN row
                          THEN row["P/L underlying"] ELSE 0
        action == IF "Option size" \in DOMAIN row
                  THEN fill.side \o " " \o row["action"]
                  ELSE fill.side
        commission0 == IF "Commission" \in DOMAIN row THEN row["Commission"] ELSE 0
        basis == StockBasis(yes, qqq.symbol, fill, under_shares)
        PNLunderlyingleg == PNLunderlyingleg0
                            + (fill.price - basis.leg_price) * fill.shares
        PNLunderlying == PNLunderlying0 + fill.realizedPNL
        commission == commission0 + fill.commission
        d == ("price" :> fill.price) @@ ("trade price" :> basis.trade_price)
             @@ ("P/L underlying" :> PNLunderlying)
             @@ ("Underlying size" :> under_shares) @@ ("action" :> action)
             @@ ("leg price" :> basis.leg_price)
             @@ ("P/L underlying leg" :> PNLunderlyingleg)
             @@ ("acct bal" :> acct)
             @@ ("position bal" :> under_shares * fill.price)
             @@ ("Commission" :> commission)
             @@ ("date" :> fill.time) @@ ("time" :> fill.time)
    IN  [trades |-> [trd EXCEPT ![qqq.symbol] = d @@ row],
         key |-> qqq.symbol,
         loc |-> ("action" :> action) @@ ("commission" :> commission)
                 @@ ("leg_price" :> basis.leg_price)
                 @@ ("trade_price" :> basis.trade_price) @@ loc]

\* ComboClassifier that looks for the ratio-100 BUY leg in the first place only.
ComboClassifier_FirstLegOnly(qqq) ==
    IF /\ qqq.comboLegs[1].ratio = 1 /\ qqq.comboLegs[2].ratio = 1
       /\ qqq.comboLegs[1].action # qqq.comboLegs[2].action
    THEN "ROLLOVER"
    ELSE IF qqq.comboLegs[1].action = "BUY" /\ qqq.comboLegs[1].ratio = 100
         THEN "BUY WRITE"
         ELSE "Unknown"

\* Classification of a Bag order from its two combo legs (lines 314-321).
ComboClassifier(qqq) ==
    IF /\ qqq.comboLegs[1].ratio = 1 /\ qqq.comboLegs[2].ratio = 1
       /\ qqq.comboLegs[1].action # qqq.comboLegs[2].action
    THEN "ROLLOVER"
    ELSE IF \/ (qqq.comboLegs[1].action = "BUY" /\ qqq.comboLegs[1].ratio = 100)
            \/ (qqq.comboLegs[2].action = "BUY" /\ qqq.comboLegs[2].ratio = 100)
         THEN "BUY WRITE"
         ELSE "Unknown"

\* BagOptionAction that compares the running action with == 'ROLLOVER'
\* instead of startswith('ROLLOVER').
BagOptionAction_ExactMatch(action, side) ==
    IF action = "ROLLOVER"
    THEN (IF side = "SLD" THEN "ROLLOVER WRITE" ELSE "ROLLOVER CLOSE")
    ELSE action

\* The action of a Bag's option leg (lines 337-348): the sell leg of a
\* rollover becomes ROLLOVER WRITE, its buy leg ROLLOVER CLOSE.
BagOptionAction(action, side) ==
    IF StartsWith(action, "ROLLOVER")
    THEN (IF side = "SLD" THEN "ROLLOVER WRITE" ELSE "ROLLOVER CLOSE")
    ELSE action

\* BagOptionKey that gives every sold option leg a `ticker*` row.
BagOptionKey_EverySellLeg(action, side, sym) ==
    IF side = "SLD" THEN sym \o "*" ELSE sym

\* The key of the row a Bag's option leg posts to (lines 330, 340-343).
BagOptionKey(action, side, sym) ==
    IF side = "SLD" /\ StartsWith(action, "ROLLOVER") THEN sym \o "*" ELSE sym

\* Option leg of a Bag order, one fill (lines 329-361).
BagOptionFill(trd, yes, acct, qqq, loc, fill) ==
    LET con == fill.contract
        sld == fill.side = "SLD"
        rollover == StartsWith(loc["action"], "ROLLOVER")
        commission == IF loc["action"] = "BUY WRITE"
                      THEN loc["commission"] + fill.commission
                      ELSE fill.commission
        option_shares == IF sld THEN -fill.shares ELSE fill.shares
        action == BagOptionAction(loc["action"], fill.side)
        mysymbol == BagOptionKey(loc["action"], fill.side, qqq.symbol)
        trd1 == IF mysymbol \in DOMAIN trd THEN trd
                ELSE (mysymbol :> ("ticker" :> qqq.symbol)) @@ trd
        filt == Filt(yes, qqq.symbol)
        option_trade_price ==
            IF ~sld /\ rollover /\ Len(filt) = 1
            THEN filt[1]["option trade price"] ELSE fill.price
        position_bal == loc["position_bal"]
                        + fill.price * option_shares * con.multiplier
        d == ("DOE" :> con.lastTradeDateOrContractMonth) @@ ("strike" :> con.strike)
             @@ ("option price" :> fill.price)
             @@ ("option trade price" :> option_trade_price)
             @@ ("date" :> fill.time) @@ ("time" :> fill.time)
             @@ ("Option size" :> option_shares)
             @@ ("P/L option" :> fill.realizedPNL) @@ ("acct bal" :> acct)
             @@ ("Commission" :> commission) @@ ("position bal" :> position_bal)
             @@ ("action" :> action)
    IN  [trades |-> [trd1 EXCEPT ![mysymbol] = d @@ trd1[mysymbol]],
         key |-> mysymbol,
         loc |-> ("action" :> action) @@ ("commission" :> commission)
                 @@ ("position_bal" :> position_bal)
                 @@ ("option_trade_price" :> option_trade_price) @@ loc]

\* max() of an empty column raises ValueError (lines 374-378).
BagStockRaises(yes, fill) ==
    fill.side # "BOT" /\ Len(Filt(yes, fill.contract.symbol)) = 0

\* BagStockBasis that carries yesterday's basis whenever yesterday has a row.
BagStockBasis_CarryWhenHeld(yes, fill) ==
    LET filt == Filt(yes, fill.contract.symbol) IN
    IF fill.side = "BOT" /\ Len(filt) = 0
    THEN [leg_price |-> fill.price, trade_price |-> fill.price]
    ELSE [leg_price |-> SeqMax(Column(filt, "leg price")),
          trade_price |-> SeqMax(Column(filt, "trade price"))]

\* trade price and leg price of a Bag's stock leg (lines 370-378).
BagStockBasis(yes, fill) ==
    LET filt == Filt(yes, fill.contract.symbol) IN
    IF fill.side = "BOT"
    THEN [leg_price |-> fill.price, trade_price |-> fill.price]
    ELSE [leg_price |-> SeqMax(Column(filt, "leg price")),
          trade_price |-> SeqMax(Column(filt, "trade price"))]

\* Stock leg of a Bag order, one fill (lines 367-386).
BagStockFill(trd, yes, acct, qqq, loc, fill) ==
    LET con == fill.contract
        commission == loc["commission"] + fill.commission
        position_bal == loc["position_bal"] + fill.shares * fill.price
        leg_price == BagStockBasis(yes, fill).leg_price
        trade_price == BagStockBasis(yes, fill).trade_price
        PNLunderlyingleg == (fill.price - leg_price) * fill.shares
        d == ("price" :> fill.price) @@ ("trade price" :> trade_price)
             @@ ("date" :> fill.time) @@ ("time" :> fill.time)
             @@ ("leg price" :> leg_price)
             @@ ("P/L underlying" :> fill.realizedPNL)
             @@ ("Underlying size" :> fill.shares)
             @@ ("P/L underlying leg" :> PNLunderlyingleg)
             @@ ("action" :> loc["action"])
             @@ ("position bal" :> position_bal) @@ ("acct bal" :> acct)
             @@ ("Commission" :> commission)
    IN  [trades |-> [trd EXCEPT ![qqq.symbol] = d @@ trd[qqq.symbol]],
         key |-> qqq.symbol,
         loc |-> ("commission" :> commission) @@ ("position_bal" :> position_bal)
                 @@ ("leg_price" :> leg_price) @@ ("trade_price" :> trade_price)
                 @@ loc]

\* The row of a symbol is created when the dictionary has none (lines 192-193).
WithRow(trd, sym) ==
    IF sym \in DOMAIN trd THEN trd ELSE (sym :> ("ticker" :> sym)) @@ trd

\* -------------------------------------------------- the trade pass, whole
\* A trade object of ib.trades(): the order's contract and its fills.
TradeObject(con, fills) == [contract |-> con, fills |-> fills]

\* for fill in ttt.fills, of one trade object (lines 194-390).  st is the
\* trades dictionary, the locals and the exception raised so far.
RECURSIVE FillLoop(_, _, _, _, _)
FillLoop(st, yes, acct, con, fills) ==
    IF fills = <<>> \/ st.err # "" THEN st
    ELSE LET fill == Head(fills)
             raises == /\ con.type = "Bag" /\ fill.contract.type = "Stock"
                       /\ BagStockRaises(yes, fill)
             r == IF con.type = "Option"
                  THEN OptionOnlyFill(st.trades, yes, acct, con, st.loc, fill)
                  ELSE IF con.type = "Stock"
                  THEN StockOnlyFill(st.trades, yes, acct, con, st.loc, fill)
                  ELSE IF fill.contract.type = "Option"
                  THEN BagOptionFill(st.trades, yes, acct, con, st.loc, fill)
                  ELSE BagStockFill(st.trades, yes, acct, con, st.loc, fill)
         IN  IF raises
             THEN [trades |-> st.trades, loc |-> st.loc, err |-> "ValueError"]
             ELSE FillLoop([trades |-> r.trades, loc |-> r.loc, err |-> ""],
                           yes, acct, con, Tail(fills))

\* for ttt in trds (lines 189-390).
RECURSIVE TradeLoop(_, _, _, _)
TradeLoop(st, yes, acct, trds) ==
    IF trds = <<>> \/ st.err # "" THEN st
    ELSE LET con == Head(trds).contract
             loc1 == IF con.type = "Bag"
                     THEN ("action" :> ComboClassifier(con)) @@ ("commission" :> 0)
                          @@ ("position_bal" :> 0) @@ st.loc
                     ELSE st.loc
             st1 == [trades |-> WithRow(st.trades, con.symbol), loc |-> loc1,
                     err |-> ""]
         IN  TradeLoop(FillLoop(st1, yes, acct, con, Head(trds).fills),
                       yes, acct, Tail(trds))

\* The keys of the trades dictionary in insertion order: the row of a
\* ticker is made before its `ticker*` row (lines 192-193, 340-343).
TradeKeys(trd) ==
    LET both == [i \in 1..2 * Cardinality(Symbols) |->
                    LET sym == CHOOSE x \in Symbols : TRUE
                    IN  IF i = 1 THEN sym ELSE sym \o "*"]
    IN  SelectSeq(both, LAMBDA k : k \in DOMAIN trd)

\* ------------------------------------------------------ the portfolio pass
\* Arithmetic on cells: a missing operand gives a missing result.
NSub(a, b) == IF a = NaN \/ b = NaN THEN NaN ELSE a - b

NMul(a, b) == IF a = NaN \/ b = NaN THEN NaN ELSE a * b

\* The sentinel the portfolio pass writes for an ambiguous ticker.
Sentinel == -9999

\* Python's None.
None == [None |-> TRUE]

\* The model greeks of a ticker; deltas are in hundredths.
OptionComputation(delta) == [delta |-> delta]

\* What the market-data connection answers for one option contract: whether
\* the contract qualifies, and the model greeks of its ticker, None when
\* none is attached.
MarketData(qualifies, modelGreeks) ==
    [qualifies |-> qualifies, modelGreeks |-> modelGreeks]

\* get_delt that takes a ticker without model greeks for an invalid contract.
get_delt_InvalidWithoutGreeks(ib, sym, exp, str) ==
    IF ib.qualifies /\ ib.modelGreeks # None THEN ib.modelGreeks.delta ELSE -999

\* get_delt (ibutil.py lines 20-48).  qualifyContracts keeps the contracts
\* that resolve and reqTickers answers one ticker for each of them; tick[0]
\* of an empty list raises inside the try, and the except clause gives -999.
get_delt(ib, sym, exp, str) ==
    LET cont == <<[type |-> "Option", symbol |-> sym, strike |-> str,
                   lastTradeDateOrContractMonth |-> exp]>>
        qualified == SelectSeq(cont, LAMBDA c : ib.qualifies)
        tick == [i \in 1..Len(qualified) |->
                    [contract |-> qualified[i], modelGreeks |-> ib.modelGreeks]]
    IN  IF Len(tick) = 0 THEN -999
        ELSE IF tick[1].modelGreeks # None THEN tick[1].modelGreeks.delta
        ELSE -99

\* An item of ib.portfolio(): bags are not stored, each leg is an item.
\* ib is what the connection answers get_delt() for the item's contract.
PortfolioItem(con, position, marketPrice, marketValue, unrealizedPNL, ib) ==
    [contract |-> con, position |-> position, marketPrice |-> marketPrice,
     marketValue |-> marketValue, unrealizedPNL |-> unrealizedPNL, ib |-> ib]

\* The rows of the trades frame whose ticker is sym.
TradeKeysOf(trd, sym) == {k \in DOMAIN trd : trd[k]["ticker"] = sym}

\* The block run at the first item of a ticker (lines 424-514): it picks
\* the basis of the ticker from today's trade rows and yesterday's ledger
\* and binds the locals the row update reads.  err names the exception the
\* block ends with, "" when it ends normally.
FirstOfTicker(trd, yes, sym, loc0) ==
    LET loc == ("rollover_flag" :> FALSE) @@ ("sell_CC_flag" :> FALSE)
               @@ ("close_CC_flag" :> FALSE) @@ loc0
        n == Cardinality(TradeKeysOf(trd, sym))
        filt2 == Filt(yes, sym)
        n2 == Len(filt2)
        others == Len(yes) - n2
        row == trd[sym]
        act == row["action"]
        ok(l) == [loc |-> l, err |-> ""]
    IN  IF n = 1
        THEN IF "action" \notin DOMAIN row
             THEN [loc |-> loc, err |-> "AttributeError"]
             ELSE IF act = "SELL CC"
             THEN IF n2 = 1
                  THEN ok(("sell_CC_flag" :> TRUE)
                          @@ ("trade_price" :> SeqMax(Column(filt2, "trade price")))
                          @@ ("option_trade_price" :> Cell(row, "option trade price"))
                          @@ loc)
                  ELSE IF others > 0
                  THEN ok(("trade_price" :> 0)
                          @@ ("option_trade_price" :> Cell(row, "option trade price"))
                          @@ ("action" :> "UNMATCHED SELL CC") @@ loc)
                  ELSE ok(("action" :> "ERROR") @@ loc)
             ELSE IF act = "CLOSE CC"
             THEN IF n2 = 1
                  THEN ok(("close_CC_flag" :> TRUE)
                          @@ ("trade_price" :> filt2[1]["trade price"])
                          @@ ("option_trade_price" :> Cell(row, "option trade price"))
                          @@ loc)
                  ELSE IF others > 0
                  THEN ok(("trade_price" :> 0) @@ ("leg_price" :> 0)
                          @@ ("option_trade_price" :> Cell(row, "option trade price"))
                          @@ ("action" :> "UNMATCHED CLOSE CC") @@ loc)
                  ELSE ok(("action" :> "ERROR") @@ loc)
             ELSE IF act = "BUY WRITE" \/ StartsWith(act, "BOT")
             THEN ok(("trade_price" :> Cell(row, "trade price"))
                     @@ ("leg_price" :> Cell(row, "leg price"))
                     @@ ("option_trade_price" :> Cell(row, "option trade price"))
                     @@ loc)
             ELSE IF act = "SLD" /\ n2 = 1
             THEN ok(("trade_price" :> SeqMax(Column(filt2, "trade price")))
                     @@ ("leg_price" :> Cell(row, "leg price"))
                     @@ ("option_trade_price" :> filt2[1]["option trade price"])
                     @@ loc)
             ELSE ok(loc)
        ELSE IF n = 0
        THEN IF n2 = 1
             THEN ok(("trade_price" :> SeqMax(Column(filt2, "trade price")))
                     @@ ("leg_price" :> SeqMax(Column(filt2, "leg price")))
                     @@ ("option_trade_price"
                           :> SeqMax(Column(filt2, "option trade price")))
                     @@ loc)
             ELSE IF n2 = 0
             THEN ok(("trade_price" :> 0) @@ ("leg_price" :> 0)
                     @@ ("option_trade_price" :> 0) @@ loc)
             ELSE ok(("trade_price" :> Sentinel) @@ ("leg_price" :> Sentinel) @@ loc)
        ELSE IF n = 2
        THEN IF n2 = 0
             THEN [loc |-> loc, err |-> "ValueError"]
             ELSE ok(("trade_price" :> SeqMax(Column(filt2, "trade price")))
                     @@ ("rollover_flag" :> TRUE)
                     @@ ("option_trade_price"
                           :> Cell(trd[sym \o "*"], "option trade price"))
                     @@ loc)
        ELSE ok(("trade_price" :> Sentinel) @@ ("leg_price" :> Sentinel) @@ loc)

\* The row update of a stock item (lines 515-524).
StockItem(positions, acct, ppp, loc0) ==
    LET sym == ppp.contract.symbol
        loc == IF loc0["rollover_flag"] \/ loc0["sell_CC_flag"] \/ loc0["close_CC_flag"]
               THEN ("leg_price" :> ppp.marketPrice) @@ loc0
               ELSE loc0
    IN  IF sym \notin DOMAIN positions
        THEN [positions |-> positions, loc |-> loc, err |-> "KeyError"]
        ELSE IF {"trade_price", "leg_price"} \ DOMAIN loc # {}
        THEN [positions |-> positions, loc |-> loc, err |-> "UnboundLocalError"]
        ELSE LET bal == ppp.marketValue + positions[sym]["position bal"]
                 d == ("price" :> ppp.marketPrice)
                      @@ ("trade price" :> loc["trade_price"])
                      @@ ("leg price" :> loc["leg_price"]) @@ ("Commision" :> 0)
                      @@ ("Underlying size" :> ppp.position)
                      @@ ("position bal" :> bal) @@ ("acct bal" :> acct)
                      @@ ("action" :> loc["action"])
                      @@ ("P/L underlying" :> ppp.unrealizedPNL)
                      @@ ("P/L underlying leg"
                            :> NMul(ppp.position,
                                    NSub(ppp.marketPrice, loc["leg_price"])))
             IN  [positions |-> [positions EXCEPT ![sym] = d @@ positions[sym]],
                  loc |-> loc, err |-> ""]

\* The row update of an option item (lines 525-536).
OptionItem(positions, ppp, loc) ==
    LET sym == ppp.contract.symbol
    IN  IF sym \notin DOMAIN positions
        THEN [positions |-> positions, loc |-> loc, err |-> "KeyError"]
        ELSE IF "option_trade_price" \notin DOMAIN loc
        THEN [positions |-> positions, loc |-> loc, err |-> "UnboundLocalError"]
        ELSE LET bal == positions[sym]["position bal"] + ppp.marketValue
                 d == ("DOE" :> ppp.contract.lastTradeDateOrContractMonth)
                      @@ ("strike" :> ppp.contract.strike)
                      @@ ("option price" :> ppp.marketPrice)
                      @@ ("option trade price" :> loc["option_trade_price"])
                      @@ ("position bal" :> bal) @@ ("action" :> loc["action"])
                      @@ ("Option size" :> ppp.position)
                      @@ ("P/L option" :> ppp.unrealizedPNL)
                      @@ ("delta" :> get_delt(ppp.ib, sym,
                                              ppp.contract.lastTradeDateOrContractMonth,
                                              ppp.contract.strike))
             IN  [positions |-> [positions EXCEPT ![sym] = d @@ positions[sym]],
                  loc |-> loc, err |-> ""]

\* One iteration of `for ppp in port` (lines 419-536).  st is the
\* positions dictionary, the locals, the previous ticker and the exception
\* raised so far.
PortfolioStep(st, trd, yes, acct, ppp) ==
    LET sym == ppp.contract.symbol
        isfirst == sym # st.prevticker
        loc1 == IF isfirst THEN ("action" :> "OBSERVE") @@ st.loc ELSE st.loc
        f == IF isfirst THEN FirstOfTicker(trd, yes, sym, loc1)
             ELSE [loc |-> loc1, err |-> ""]
        u == IF ppp.contract.type = "Stock"
             THEN StockItem(st.positions, acct, ppp, f.loc)
             ELSE OptionItem(st.positions, ppp, f.loc)
    IN  IF f.err # ""
        THEN [positions |-> st.positions, loc |-> f.loc,
              prevticker |-> st.prevticker, err |-> f.err]
        ELSE [positions |-> u.positions, loc |-> u.loc,
              prevticker |-> sym, err |-> u.err]

\* for ppp in port (lines 417-536), stopping at the first exception.
RECURSIVE PortfolioPass(_, _, _, _, _)
PortfolioPass(st, trd, yes, acct, prt) ==
    IF prt = <<>> \/ st.err # "" THEN st
    ELSE PortfolioPass(PortfolioStep(st, trd, yes, acct, Head(prt)),
                       trd, yes, acct, Tail(prt))

\* The stub rows made from ib.positions() (lines 137-143).
StubPositions(pos, log_date, log_time) ==
    [sym \in {pos[i] : i \in 1..Len(pos)} |-> ("ticker" :> sym) @@ ("date" :> log_date)
                     @@ ("time" :> log_time) @@ ("action" :> "OBSERVE")
                     @@ ("position bal" :> 0)]

ColumnTitles ==
    <<"date", "time", "action", "ticker", "price", "trade price", "leg price",
      "strike", "DOE", "option price", "option trade price", "Commission",
      "Option size", "Underlying size", "position bal", "acct bal",
      "P/L underlying", "P/L underlying leg", "P/L option", "delta">>

\* DataFrame.from_dict(rows, orient='index').reindex(columns=columnTitles):
\* one record per key, in insertion order, with every titled column and no
\* other.  keys is the insertion order of the dictionary.
Reindex(rows, keys) ==
    [i \in 1..Len(keys) |->
        [c \in {ColumnTitles[j] : j \in 1..Len(ColumnTitles)} |-> Cell(rows[keys[i]], c)]]

\* Comparison of cells: a comparison with a missing cell is false.
NLe(a, b) == a # NaN /\ b # NaN /\ a <= b

\* The hour from which a run counts as after the close (line 550).
CloseHour == 16

\* PostClose that adjusts the rows at any hour.
PostClose_AnyHour(rows, hour, today) ==
    [i \in 1..Len(rows) |->
        IF rows[i]["DOE"] # NaN /\ rows[i]["DOE"] <= today
        THEN [rows[i] EXCEPT !["action"] =
                IF NLe(rows[i]["strike"], rows[i]["price"])
                THEN "Called Away" ELSE "Expire CC"]
        ELSE rows[i]]

\* The post-close adjustment of the portfolio frame (lines 550-561).
PostClose(rows, hour, today) ==
    IF hour >= CloseHour
    THEN [i \in 1..Len(rows) |->
            IF rows[i]["DOE"] # NaN /\ rows[i]["DOE"] <= today
            THEN [rows[i] EXCEPT !["action"] =
                    IF NLe(rows[i]["strike"], rows[i]["price"])
                    THEN "Called Away" ELSE "Expire CC"]
            ELSE rows[i]]
    ELSE rows

\* ------------------------------------------------------- days and files
\* The days the runs are made on: date is strftime('%Y-%m-%d'), ymd the
\* same day as strptime('%Y%m%d') orders it, weekday is date.weekday().
Calendar ==
    <<[date |-> "2023-07-20", ymd |-> 20230720, weekday |-> 3],
      [date |-> "2023-07-21", ymd |-> 20230721, weekday |-> 4],
      [date |-> "2023-07-22", ymd |-> 20230722, weekday |-> 5],
      [date |-> "2023-07-24", ymd |-> 20230724, weekday |-> 0]>>

\* The lines of holidays.txt.
Holidays == {"2023-07-24"}

\* NoTrading that tests the holidays only.
NoTrading_HolidaysOnly(day) == day.date \in Holidays

\* is_holiday(log_date, half_day_flag=False) or weekday() >= 5 (line 97).
NoTrading(day) == day.date \in Holidays \/ day.weekday >= 5

\* An hour of the afternoon before the close.
BeforeClose == CloseHour - 1

PositionsFile == "positions.xlsx"
ActivityFile == "activity.xlsx"
DatedFile(stem, day, ext) == stem \o "-" \o day.date \o ext

\* The file a recovery run reads its trades from (line 171).
RecoverFile == "trades-2023-07-20.pkl"

\* An entry of the activity frame: the cells of the record and the type of
\* its date cell, text as strftime wrote it or a date as
\* pd.to_datetime(...).dt.date leaves it (line 116).
LogEntries(rows, date_as) ==
    [i \in 1..Len(rows) |-> [cells |-> rows[i], date_as |-> date_as]]

ToDate(log) == [i \in 1..Len(log) |-> [log[i] EXCEPT !.date_as = "date"]]

\* AppendFrame that keeps the appended frame alone.
AppendFrame_Replace(log, rows) == LogEntries(rows, "text")

\* activity.append(frame, ignore_index=True) (lines 407, 562).
AppendFrame(log, rows) == log \o LogEntries(rows, "text")

\* ------------------------------------------------------------------- state
VARIABLES
    yespos,         \* yesterday's ledger, read from positions.xlsx
    account_value,  \* NetLiquidationByCurrency of the account
    trades,         \* the trades dictionary: key -> row
    loc,            \* bound local variables of recorder() read by later code
    qqq,            \* contract of the trade object the loop is at
    pc,             \* "loop", "bag", "fills", "done" or "raised"
    ntrades,        \* trade objects begun so far
    nfills,         \* fills handled so far
    posted,         \* history: the fills posted so far, with their rows
    clock,          \* the day, an index of Calendar, and the hour
    disk,           \* the files of ./data: name -> content
    run,            \* the run: flags, day and hour, pos, trds, port
    positions,      \* the positions dictionary: ticker -> row
    activity,       \* the activity frame in memory
    hist,           \* history: runs made, day the ledger was written, the
                    \* files and the frame as the run found them, the
                    \* frames it appended, the runs completed so far
    ib_positions,   \* the account at the broker: what ib.positions() gives
    last,           \* history: the last call of a trading function, its
                    \* arguments, the account before it and its outcome
    trader          \* trader.py: its place, the manifest, the row it is
                    \* at, the statuses so far and the trades it placed

runvars == <<clock, disk, run, positions, activity, hist>>

brokervars == <<ib_positions, last, trader>>

vars == <<yespos, account_value, trades, loc, qqq, pc, ntrades, nfills, posted,
          clock, disk, run, positions, activity, hist, ib_positions, last, trader>>

NoContract == [type |-> "None", symbol |-> "None"]

\* A run with read_trades_flag set, before anything was fetched.
NoRun ==
    [read_trades_flag |-> TRUE, recover_trades_flag |-> FALSE, day |-> 1,
     hour |-> BeforeClose, pos |-> <<>>, trds |-> <<>>, port |-> <<>>]

\* No trading function was called yet.
NoCall ==
    [seq |-> 0, fn |-> "none", args |-> <<>>, before |-> <<>>, ret |-> "",
     trades |-> <<>>]

\* trader.py is not running.
NoTrader ==
    [pc |-> "idle", manifest |-> <<>>, n |-> 0, status |-> <<>>, trades |-> <<>>]

NoHist ==
    [runs |-> 0, ledger_day |-> 0, read_day |-> 0, disk0 |-> <<>>, log0 |-> <<>>,
     trades_df |-> <<>>, port_df |-> <<>>, done |-> <<>>]

\* The state with the ledger of positions.xlsx one of ledgers and recorder()
\* at the place p.
InitAt(ledgers, p) ==
    /\ yespos \in ledgers
    /\ account_value \in AccountValues
    /\ trades = <<>>
    /\ loc = <<>>
    /\ qqq = NoContract
    /\ pc = p
    /\ ntrades = 0
    /\ nfills = 0
    /\ posted = <<>>
    /\ clock = [day |-> 1, hour |-> BeforeClose]
    /\ disk = (PositionsFile :> yespos) @@ (ActivityFile :> <<>>)
    /\ run = NoRun
    /\ positions = <<>>
    /\ activity = <<>>
    /\ hist = NoHist
    /\ ib_positions = <<>>
    /\ last = NoCall
    /\ trader = NoTrader

\* recorder() has read yesterday's ledger and is at the trade loop.
Init == InitAt(Ledgers, "loop")

\* for ttt in trds: the next trade object (lines 189-193).
BeginTradeOf(cons, maxTrades) ==
    /\ pc = "loop"
    /\ ntrades < maxTrades
    /\ \E c \in cons :
        /\ qqq' = c
        /\ trades' = WithRow(trades, c.symbol)
        /\ pc' = IF c.type = "Bag" THEN "bag" ELSE "fills"
    /\ ntrades' = ntrades + 1
    /\ UNCHANGED <<yespos, account_value, loc, nfills, posted, runvars, brokervars>>

BeginTrade == BeginTradeOf(Contracts, MaxTrades)

\* Head of the Bag branch (lines 313-323).  The combo legs are not read
\* again after the classification, so qqq keeps only type and symbol.
ClassifyBag ==
    /\ pc = "bag"
    /\ loc' = ("action" :> ComboClassifier(qqq)) @@ ("commission" :> 0)
              @@ ("position_bal" :> 0) @@ loc
    /\ qqq' = [type |-> "Bag", symbol |-> qqq.symbol]
    /\ pc' = "fills"
    /\ UNCHANGED <<yespos, account_value, trades, ntrades, nfills, posted, runvars, brokervars>>

Post(r, leg, branch, fill) ==
    /\ trades' = r.trades
    /\ loc' = r.loc
    /\ posted' = Append(posted, [key |-> r.key, leg |-> leg, branch |-> branch,
                                 order |-> ntrades, fill |-> fill])
    /\ nfills' = nfills + 1
    /\ UNCHANGED <<yespos, account_value, qqq, pc, ntrades, runvars, brokervars>>

\* One iteration of `for fill in ttt.fills` of an option-only order.
OptionFillOf(maxFills) ==
    /\ pc = "fills" /\ qqq.type = "Option" /\ nfills < maxFills
    /\ \E side \in Sides, e \in Executions :
        LET fill == Fill(qqq, side, e) IN
        Post(OptionOnlyFill(trades, yespos, account_value, qqq, loc, fill),
             "Option", "Option", fill)

OptionFill == OptionFillOf(MaxFills)

\* One iteration of `for fill in ttt.fills` of a stock-only order.
StockFillOf(maxFills) ==
    /\ pc = "fills" /\ qqq.type = "Stock" /\ nfills < maxFills
    /\ \E side \in Sides, e \in Executions :
        LET fill == Fill(qqq, side, e) IN
        Post(StockOnlyFill(trades, yespos, account_value, qqq, loc, fill),
             "Stock", "Stock", fill)

StockFill == StockFillOf(MaxFills)

\* One iteration of the Bag's fill loop, the fill is an option leg.
BagOptionLeg ==
    /\ pc = "fills" /\ qqq.type = "Bag" /\ nfills < MaxFills
    /\ \E side \in Sides, e \in Executions :
        LET fill == Fill(LegOption(qqq.symbol, side), side, e) IN
        Post(BagOptionFill(trades, yespos, account_value, qqq, loc, fill),
             "Option", loc["action"], fill)

\* One iteration of the Bag's fill loop, the fill is the stock leg.
BagStockLeg ==
    /\ pc = "fills" /\ qqq.type = "Bag" /\ nfills < MaxFills
    /\ \E side \in Sides, e \in Executions :
        LET fill == Fill(Stock(qqq.symbol), side, e) IN
        /\ ~BagStockRaises(yespos, fill)
        /\ Post(BagStockFill(trades, yespos, account_value, qqq, loc, fill),
                "Stock", loc["action"], fill)

\* The stock leg of a Bag is a sale and yesterday's ledger has no row of
\* the symbol: max() raises and recorder() ends without writing a file.
BagStockLegRaises ==
    /\ pc = "fills" /\ qqq.type = "Bag" /\ nfills < MaxFills
    /\ \E side \in Sides, e \in Executions :
        BagStockRaises(yespos, Fill(Stock(qqq.symbol), side, e))
    /\ pc' = "raised"
    /\ UNCHANGED <<yespos, account_value, trades, loc, qqq, ntrades, nfills, posted, runvars, brokervars>>

\* The fills of the trade object are exhausted.
EndTrade ==
    /\ pc = "fills"
    /\ pc' = "loop"
    /\ UNCHANGED <<yespos, account_value, trades, loc, qqq, ntrades, nfills, posted, runvars, brokervars>>

\* The trade objects are exhausted (line 398).
EndLoop ==
    /\ pc = "loop"
    /\ pc' = "done"
    /\ UNCHANGED <<yespos, account_value, trades, loc, qqq, ntrades, nfills, posted, runvars, brokervars>>

Next ==
    \/ BeginTrade
    \/ ClassifyBag
    \/ OptionFill
    \/ StockFill
    \/ BagOptionLeg
    \/ BagStockLeg
    \/ BagStockLegRaises
    \/ EndTrade
    \/ EndLoop

Spec == Init /\ [][Next]_vars

\* A day of stock-only and option-only orders.
BeginLegOrder ==
    BeginTradeOf(UNION {{Stock(s)} \cup Options(s) : s \in Symbols}, MaxDayTrades)

OptionFillDay == OptionFillOf(MaxDayFills)

StockFillDay == StockFillOf(MaxDayFills)

NextDay ==
    \/ BeginLegOrder
    \/ OptionFillDay
    \/ StockFillDay
    \/ EndTrade
    \/ EndLoop

SpecDay == Init /\ [][NextDay]_vars

\* The classification alone, over every Bag contract.
BeginBag == BeginTradeOf(Bags, MaxTrades)

NextCombo ==
    \/ BeginBag
    \/ ClassifyBag
    \/ EndTrade

SpecCombo == Init /\ [][NextCombo]_vars

\* ------------------------------------------------------------ whole runs
\* The states recorder() is not running in.
Terminal == {"idle", "returned", "raised", "ended"}

\* main() and the head of recorder() (lines 82-150, 596-615): the flags,
\* the trading-day test, the two spreadsheets, the account value, the stub
\* rows of ib.positions() and the positions log.
StartRunOf(posLists, maxRuns) ==
    /\ pc \in Terminal
    /\ hist.runs < maxRuns
    /\ \E recover \in BOOLEAN, pos \in posLists, acct \in AccountValues :
        LET read == ~recover
            today == Calendar[clock.day]
            h0 == [hist EXCEPT !.runs = @ + 1, !.disk0 = disk,
                               !.log0 = disk[ActivityFile],
                               !.trades_df = <<>>, !.port_df = <<>>]
        IN  /\ run' = [read_trades_flag |-> read,
                       recover_trades_flag |-> IF read THEN FALSE ELSE recover,
                       day |-> clock.day, hour |-> clock.hour,
                       pos |-> pos, trds |-> <<>>, port |-> <<>>]
            /\ IF NoTrading(today)
               THEN /\ pc' = "returned"
                    /\ hist' = h0
                    /\ UNCHANGED <<yespos, account_value, trades, loc,
                                   positions, activity, disk>>
               ELSE /\ yespos' = disk[PositionsFile]
                    /\ activity' = ToDate(disk[ActivityFile])
                    /\ account_value' = acct
                    /\ positions' = StubPositions(pos, today.date, clock.hour)
                    /\ disk' = (DatedFile("poslog", today, ".pkl") :> pos) @@ disk
                    /\ trades' = <<>>
                    /\ loc' = <<>>
                    /\ hist' = [h0 EXCEPT !.read_day = hist.ledger_day]
                    /\ pc' = "fetch"
    /\ UNCHANGED <<qqq, ntrades, nfills, posted, clock, brokervars>>

\* The trades of the run (lines 169-186): the pickled trades of the
\* recovery file, or ib.trades(), saved when there are any.
FetchTradesOf(lists) ==
    /\ pc = "fetch"
    /\ IF run.recover_trades_flag
       THEN IF RecoverFile \in DOMAIN disk
            THEN /\ run' = [run EXCEPT !.trds = disk[RecoverFile]]
                 /\ pc' = "process"
                 /\ UNCHANGED disk
            ELSE /\ pc' = "raised"
                 /\ UNCHANGED <<run, disk>>
       ELSE \E t \in lists :
            /\ run' = [run EXCEPT !.trds = t]
            /\ disk' = IF t # <<>>
                       THEN (DatedFile("trades", Calendar[clock.day], ".pkl") :> t)
                            @@ disk
                       ELSE disk
            /\ pc' = "process"
    /\ UNCHANGED <<yespos, account_value, trades, loc, qqq, ntrades, nfills,
                   posted, clock, positions, activity, hist, brokervars>>

\* The trade pass and the append of its frame (lines 188-407).
ProcessTrades ==
    /\ pc = "process"
    /\ LET st0 == [trades |-> <<>>, loc |-> <<>>, err |-> ""]
           r == IF (run.read_trades_flag \/ run.recover_trades_flag)
                   /\ run.trds # <<>>
                THEN TradeLoop(st0, yespos, account_value, run.trds)
                ELSE st0
           trades_df == Reindex(r.trades, TradeKeys(r.trades))
       IN  /\ trades' = r.trades
           /\ loc' = r.loc
           /\ IF r.err # ""
              THEN /\ pc' = "raised"
                   /\ UNCHANGED <<activity, hist>>
              ELSE /\ pc' = "portfolio"
                   /\ activity' = AppendFrame(activity, trades_df)
                   /\ hist' = [hist EXCEPT !.trades_df = trades_df]
    /\ UNCHANGED <<yespos, account_value, qqq, ntrades, nfills, posted, clock,
                   disk, run, positions, brokervars>>

\* ib.portfolio(), its log and the portfolio pass (lines 409-536).
PortfolioOf(ports) ==
    /\ pc = "portfolio"
    /\ \E prt \in ports :
        LET st0 == [positions |-> positions, loc |-> loc,
                    prevticker |-> "not a real ticker", err |-> ""]
            r == PortfolioPass(st0, trades, yespos, account_value, prt)
        IN  /\ run' = [run EXCEPT !.port = prt]
            /\ disk' = (DatedFile("port", Calendar[clock.day], ".pkl") :> prt)
                       @@ disk
            /\ positions' = r.positions
            /\ loc' = r.loc
            /\ pc' = IF r.err # "" THEN "raised" ELSE "adjust"
    /\ UNCHANGED <<yespos, account_value, trades, qqq, ntrades, nfills, posted,
                   clock, activity, hist, brokervars>>

\* The portfolio frame, the post-close adjustment and the four
\* spreadsheets (lines 541-574).
SaveRun ==
    /\ pc = "adjust"
    /\ LET today == Calendar[clock.day]
           port_df == PostClose(Reindex(positions, run.pos), clock.hour, today.ymd)
           log == AppendFrame(activity, port_df)
       IN  /\ activity' = log
           /\ disk' = (PositionsFile :> port_df)
                      @@ (DatedFile("positions", today, ".xlsx") :> port_df)
                      @@ (ActivityFile :> log)
                      @@ (DatedFile("activity", today, ".xlsx") :> log)
                      @@ disk
           /\ hist' = [hist EXCEPT
                         !.ledger_day = clock.day, !.port_df = port_df,
                         !.done = Append(@, [day |-> run.day, trds |-> run.trds,
                                             port |-> run.port, yespos |-> yespos,
                                             trades |-> trades, ledger |-> port_df])]
           /\ pc' = "ended"
    /\ UNCHANGED <<yespos, account_value, trades, loc, qqq, ntrades, nfills,
                   posted, clock, run, positions, brokervars>>

\* Time passes between two runs.
Afternoon ==
    /\ pc \in Terminal
    /\ clock.hour < CloseHour
    /\ clock' = [clock EXCEPT !.hour = CloseHour]
    /\ UNCHANGED <<yespos, account_value, trades, loc, qqq, pc, ntrades, nfills,
                   posted, disk, run, positions, activity, hist, brokervars>>

Midnight ==
    /\ pc \in Terminal
    /\ clock.day < Len(Calendar)
    /\ clock' = [day |-> clock.day + 1, hour |-> BeforeClose]
    /\ UNCHANGED <<yespos, account_value, trades, loc, qqq, pc, ntrades, nfills,
                   posted, disk, run, positions, activity, hist, brokervars>>

\* ------------------------------------------------------ inputs of a run
Exec(n) == CHOOSE e \in Executions : e.shares = n

HeldCall(sym) == Option(sym, 50, 20230721)

RolloverBag(sym) ==
    Bag(sym, [ratio |-> 1, action |-> "BUY"], [ratio |-> 1, action |-> "SELL"])

BuyWriteBag(sym) ==
    Bag(sym, [ratio |-> 100, action |-> "BUY"], [ratio |-> 1, action |-> "SELL"])

\* The orders of a day on A: an order without a fill, a stock order and an
\* option order of either side, a rollover and a buy-write.
TradeObjects ==
    {TradeObject(Stock("A"), <<>>)}
    \cup {TradeObject(Stock("A"), <<Fill(Stock("A"), sd, Exec(1))>>) : sd \in Sides}
    \cup {TradeObject(HeldCall("A"), <<Fill(HeldCall("A"), sd, Exec(1))>>) : sd \in Sides}
    \cup {TradeObject(RolloverBag("A"),
                      <<Fill(LegOption("A", "BOT"), "BOT", Exec(1)),
                        Fill(LegOption("A", "SLD"), "SLD", Exec(2))>>),
          TradeObject(BuyWriteBag("A"),
                      <<Fill(Stock("A"), "BOT", Exec(2)),
                        Fill(LegOption("A", "SLD"), "SLD", Exec(1))>>)}

\* What ib.trades() returns: nothing, or one order.
TradeLists == {<<>>} \cup {<<t>> : t \in TradeObjects}

\* The connection during market hours: the contract qualifies and its
\* ticker has model greeks, delta 0.40.
Quoted == MarketData(TRUE, OptionComputation(40))

\* The items ib.portfolio() can hold: the stock and the short call of A
\* and of B.  A trades above the strike of its call and B below.
PortfolioItems ==
    {PortfolioItem(Stock("A"), 1, 60, 60, 5, Quoted),
     PortfolioItem(HeldCall("A"), -1, 6, -600, 2, Quoted),
     PortfolioItem(Stock("B"), 1, 40, 40, -3, Quoted),
     PortfolioItem(Option("B", 55, 20230721), -1, 7, -700, 1, Quoted)}

\* The sequences without repetition over a set, up to a length.
Distinct(S, n) ==
    UNION {{q \in [1..k -> S] : \A i, j \in 1..k : q[i] = q[j] => i = j} : k \in 0..n}

Portfolios == Distinct(PortfolioItems, MaxItems)

\* The tickers of ib.positions(), in the order of their first item: none,
\* A alone, A and B.
PositionLists == {<<>>, <<"A">>, <<"A", "B">>}

\* One run of recorder(), on any day and at either hour.
StartRun == StartRunOf(PositionLists, 1)

FetchTrades == FetchTradesOf(TradeLists)

Portfolio == PortfolioOf(Portfolios)

NextRun ==
    \/ Afternoon
    \/ Midnight
    \/ StartRun
    \/ FetchTrades
    \/ ProcessTrades
    \/ Portfolio
    \/ SaveRun

\* recorder() has not been called yet.
InitRun == InitAt(Ledgers, "idle")

SpecRun == InitRun /\ [][NextRun]_vars

\* ------------------------------------------------------ sequences of runs
\* A ledger recorder() wrote has one row for a ticker.
WrittenLedgers ==
    {l \in Ledgers : \A i, j \in 1..Len(l) : l[i]["ticker"] = l[j]["ticker"] => i = j}

\* The days of a covered call on A: no trade, the call is sold, the call
\* is bought back.
CallTrades ==
    {<<>>,
     <<TradeObject(HeldCall("A"), <<Fill(HeldCall("A"), "SLD", Exec(1))>>)>>,
     <<TradeObject(HeldCall("A"), <<Fill(HeldCall("A"), "BOT", Exec(2))>>)>>}

\* The portfolio of those days: the stock of A, with or without the call.
CallPortfolios ==
    {q \in Distinct(PortfolioItems, MaxItems) :
        /\ q # <<>> /\ q[1].contract = Stock("A")
        /\ \A i \in 1..Len(q) : q[i].contract.symbol = "A"}

StartRuns == StartRunOf({<<"A">>}, MaxRuns)

FetchCallTrades == FetchTradesOf(CallTrades)

CallPortfolio == PortfolioOf(CallPortfolios)

NextRuns ==
    \/ Afternoon
    \/ Midnight
    \/ StartRuns
    \/ FetchCallTrades
    \/ ProcessTrades
    \/ CallPortfolio
    \/ SaveRun

InitRuns == InitAt(WrittenLedgers, "idle")

SpecRuns == InitRuns /\ [][NextRuns]_vars

\* ------------------------------------------------- runs and market data
\* What the connection can answer for the call of A: quoted with a delta,
\* qualified without model greeks (as outside market hours), not qualified.
Markets ==
    {MarketData(TRUE, OptionComputation(d)) : d \in {25, 40}}
    \cup {MarketData(TRUE, None), MarketData(FALSE, None)}

\* The portfolio of a covered call on A under any of these answers: the
\* stock, the call, or both in either order.
DeltaPortfolios ==
    {q \in Distinct({PortfolioItem(Stock("A"), 1, 60, 60, 5, Quoted)}
                    \cup {PortfolioItem(HeldCall("A"), -1, 6, -600, 2, m) : m \in Markets},
                    MaxItems) :
        /\ q # <<>>
        /\ Cardinality({i \in 1..Len(q) : q[i].contract.type = "Option"}) <= 1
        /\ Cardinality({i \in 1..Len(q) : q[i].contract.type = "Stock"}) <= 1}

StartDeltaRun == StartRunOf({<<"A">>}, 1)

DeltaPortfolio == PortfolioOf(DeltaPortfolios)

NextDelta ==
    \/ Afternoon
    \/ Midnight
    \/ StartDeltaRun
    \/ FetchCallTrades
    \/ ProcessTrades
    \/ DeltaPortfolio
    \/ SaveRun

SpecDelta == InitRuns /\ [][NextDelta]_vars

\* ------------------------------------------------- the trading functions
\* An entry of ib.positions(): a contract and its signed position.  The
\* connection keeps one entry for a contract, in the order the contracts
\* were first held, and drops the entry of a position that went to zero.
Position(con, position) == [contract |-> con, position |-> position]

\* The entries of pos with the symbol mystock and the security type type.
EntriesOf(pos, type, mystock) ==
    SelectSeq(pos, LAMBDA ppp : ppp.contract.type = type
                                /\ ppp.contract.symbol = mystock)

\* The value a loop of the form `for ppp in pos: if ...: x = ppp.position`
\* leaves in x: the position of the last matching entry, 0 without one
\* (order.py lines 124-131).
LastPosition(pos, type, mystock) ==
    LET e == EntriesOf(pos, type, mystock)
    IN  IF e = <<>> THEN 0 ELSE e[Len(e)].position

\* The positions after a fill that adds qty to the position of con.
Traded(pos, con, qty) ==
    IF \E i \in 1..Len(pos) : pos[i].contract = con
    THEN LET upd == [i \in 1..Len(pos) |->
                        IF pos[i].contract = con
                        THEN Position(con, pos[i].position + qty) ELSE pos[i]]
         IN  SelectSeq(upd, LAMBDA ppp : ppp.position # 0)
    ELSE IF qty = 0 THEN pos ELSE Append(pos, Position(con, qty))

\* The states in which Trade.isDone() holds: the order was filled, or it
\* was cancelled by the broker without a fill.
DoneStates == {"Filled", "Cancelled"}

\* MarketOrder(action, totalQuantity) placed for con and waited for until
\* trade.isDone() (order.py lines 138-143); positions is the account then.
Trade(con, action, totalQuantity, status, after) ==
    [contract |-> con, action |-> action, totalQuantity |-> totalQuantity,
     status |-> status, positions |-> after]

\* What a call of a trading function gives: its return value, or how it
\* ended otherwise, the trades it placed and the positions it leaves.
Outcome(ret, placed, after) ==
    [ret |-> ret, trades |-> placed, positions |-> after]

\* The quantity a filled order adds to a position.
Signed(action, totalQuantity) ==
    IF action = "SELL" THEN -totalQuantity ELSE totalQuantity

\* An order for one contract, placed and done with status.
PlaceOrder(pos, con, action, totalQuantity, status) ==
    LET after == IF status = "Filled"
                 THEN Traded(pos, con, Signed(action, totalQuantity)) ELSE pos
    IN  Trade(con, action, totalQuantity, status, after)

\* buy_stock (order.py lines 56-102).
buy_stock(pos, mystock, myshares, stockval, cash_balance, status) ==
    IF cash_balance < myshares * stockval
    THEN Outcome("False", <<>>, pos)
    ELSE LET t == PlaceOrder(pos, Stock(mystock), "BUY", myshares, status)
         IN  Outcome("True", <<t>>, t.positions)

\* sell_stock (order.py lines 105-148).
sell_stock(pos, mystock, myshares, status) ==
    LET underlyingPosition == LastPosition(pos, "Stock", mystock)
        optionPosition == LastPosition(pos, "Option", mystock)
    IN  IF underlyingPosition < myshares
        THEN Outcome("False", <<>>, pos)
        ELSE IF (underlyingPosition - myshares) + optionPosition * 100 < 0
        THEN Outcome("False", <<>>, pos)
        ELSE LET t == PlaceOrder(pos, Stock(mystock), "SELL", myshares, status)
             IN  Outcome("True", <<t>>, t.positions)

\* The loop of close_position over the snapshot of ib.positions() (order.py
\* lines 173-188): every option entry of the ticker is bought back with its
\* own order; statuses are the states the orders end in, in turn.
RECURSIVE BuyBackLoop(_, _, _, _, _)
BuyBackLoop(snapshot, mystock, statuses, placed, pos) ==
    IF snapshot = <<>> THEN [trades |-> placed, positions |-> pos]
    ELSE LET ppp == Head(snapshot) IN
         IF ppp.contract.type = "Option" /\ ppp.contract.symbol = mystock
         THEN LET t == PlaceOrder(pos, ppp.contract, "BUY", -ppp.position,
                                  statuses[Len(placed) + 1])
              IN  BuyBackLoop(Tail(snapshot), mystock, statuses,
                              Append(placed, t), t.positions)
         ELSE BuyBackLoop(Tail(snapshot), mystock, statuses, placed, pos)

\* close_position (order.py lines 151-204).  The underlying position is the
\* one of the snapshot taken before the loop.
close_position(pos, mystock, statuses) ==
    LET underlyingPosition == LastPosition(pos, "Stock", mystock)
        b == BuyBackLoop(pos, mystock, statuses, <<>>, pos)
    IN  IF underlyingPosition <= 0
        THEN Outcome("False", b.trades, b.positions)
        ELSE LET t == PlaceOrder(b.positions, Stock(mystock), "SELL",
                                 underlyingPosition, statuses[Len(b.trades) + 1])
             IN  Outcome("True", Append(b.trades, t), t.positions)

\* --------------------------------------------------- the option chain
\* What the connection answers about the calls of an expiration: the
\* strikes of the chain that fall in the price window, whether contracts of
\* that expiration exist (the ones that qualify), and the model greeks of
\* their tickers, one for each strike in rising order.
Chain(strikes, qualifies, greeks) ==
    [strikes |-> strikes, qualifies |-> qualifies, greeks |-> greeks]

\* The qualified contracts (options.py lines 91-93).
ContractsOf(chain, mystock, myexpiration) ==
    IF chain.qualifies
    THEN [i \in 1..Len(chain.strikes) |-> Option(mystock, chain.strikes[i], myexpiration)]
    ELSE <<>>

\* A ticker of the chain has no model greeks: .delta of None raises.
GreeksMissing(chain, n) == \E i \in 1..n : chain.greeks[i] = None

\* abs(tickers[i].modelGreeks.delta - 0.4) (options.py line 105), deltas in
\* hundredths.
Dist(chain, i) ==
    LET x == chain.greeks[i].delta - 40
    IN  IF x < 0 THEN -x ELSE x

\* list.index(min(list)): the first index of the least element, from 1.
IndexOfMin(dist) ==
    CHOOSE i \in 1..Len(dist) :
        /\ \A j \in 1..Len(dist) : dist[i] <= dist[j]
        /\ \A j \in 1..(i - 1) : dist[j] > dist[i]

\* The scan of covered_call over every ticker (options.py lines 103-106).
FullScan(chain, n) == IndexOfMin([i \in 1..n |-> Dist(chain, i)])

\* The number of tickers the scan of buy_write and rollover reads: it stops
\* after the first distance that is not below the least so far (buywrite.py
\* lines 83-91), which it has appended already.  0 when it reaches a
\* ticker without model greeks, where .delta of None raises.
RECURSIVE ScanLength(_, _, _, _)
ScanLength(chain, n, i, minsofar) ==
    IF i > n THEN n
    ELSE IF chain.greeks[i] = None THEN 0
    ELSE IF Dist(chain, i) < minsofar
         THEN ScanLength(chain, n, i + 1, Dist(chain, i))
         ELSE i

\* The largest distance there is: stands for the initial 9.9e30.
Far == 1000000

\* The scan of buy_write and rollover (buywrite.py lines 83-92, rollover.py
\* lines 103-112).
ScanUntilRise(chain, n) ==
    IndexOfMin([i \in 1..ScanLength(chain, n, 1, Far) |-> Dist(chain, i)])

\* ------------------------------------------------ the option functions
\* A combo leg and the Bag contract of a combo order (buywrite.py lines
\* 99-119).
ComboLeg(con, ratio, action) == [contract |-> con, ratio |-> ratio, action |-> action]

Combo(mystock, leg1, leg2) ==
    [type |-> "Bag", symbol |-> mystock, comboLegs |-> <<leg1, leg2>>]

\* A combo order placed and done with status: a fill trades every leg,
\* ratio times the quantity of the order.
PlaceCombo(pos, combo, totalQuantity, status) ==
    LET l1 == combo.comboLegs[1]
        l2 == combo.comboLegs[2]
        p1 == Traded(pos, l1.contract, Signed(l1.action, l1.ratio * totalQuantity))
        p2 == Traded(p1, l2.contract, Signed(l2.action, l2.ratio * totalQuantity))
    IN  Trade(combo, "BUY", totalQuantity, status,
              IF status = "Filled" THEN p2 ELSE pos)

\* covered_call (options.py lines 31-119).  An entry of ib.positions() has
\* a position other than zero, so with auto_flag any option entry of the
\* ticker ends the call.
covered_call(pos, mystock, mycalls, myexpiration, auto_flag, chain, status) ==
    LET underlyingPosition == LastPosition(pos, "Stock", mystock)
        optionPosition == LastPosition(pos, "Option", mystock)
        positionRoom == underlyingPosition + optionPosition * 100
        contracts == ContractsOf(chain, mystock, myexpiration)
    IN  IF auto_flag /\ \E i \in 1..Len(pos) :
                           /\ pos[i].contract.type = "Option"
                           /\ pos[i].contract.symbol = mystock
                           /\ pos[i].position # 0
        THEN Outcome("False", <<>>, pos)
        ELSE IF positionRoom < mycalls * 100
        THEN Outcome("False", <<>>, pos)
        ELSE IF Len(contracts) = 0
        THEN Outcome("False", <<>>, pos)
        ELSE IF GreeksMissing(chain, Len(contracts))
        THEN Outcome("AttributeError", <<>>, pos)
        ELSE LET best_delta_index == FullScan(chain, Len(contracts))
                 t == PlaceOrder(pos, contracts[best_delta_index], "SELL", 1, status)
             IN  Outcome("True", <<t>>, t.positions)

\* buyback_call (options.py lines 124-173).
buyback_call(pos, mystock, mycalls, status) ==
    LET optionPosition == LastPosition(pos, "Option", mystock)
        e == EntriesOf(pos, "Option", mystock)
    IN  IF optionPosition > -mycalls
        THEN Outcome("False", <<>>, pos)
        ELSE LET t == PlaceOrder(pos, e[Len(e)].contract, "BUY", mycalls, status)
             IN  Outcome("True", <<t>>, t.positions)

\* buy_write (buywrite.py lines 24-134).  The message of the cash check
\* names myshares, which buy_write does not bind: the print raises.
buy_write(pos, mystock, mycalls, myexpiration, stockval, cash_balance, chain, status) ==
    LET contracts == ContractsOf(chain, mystock, myexpiration)
        n == Len(contracts)
    IN  IF cash_balance < 100 * mycalls * stockval
        THEN Outcome("NameError", <<>>, pos)
        ELSE IF n = 0
        THEN Outcome("False", <<>>, pos)
        ELSE IF ScanLength(chain, n, 1, Far) = 0
        THEN Outcome("AttributeError", <<>>, pos)
        ELSE LET best_delta_index == ScanUntilRise(chain, n)
                 combo == Combo(mystock, ComboLeg(Stock(mystock), 100, "BUY"),
                                ComboLeg(contracts[best_delta_index], 1, "SELL"))
                 t == PlaceCombo(pos, combo, mycalls, status)
             IN  Outcome("True", <<t>>, t.positions)

\* rollover (rollover.py lines 26-175).  The two tests of the loop end the
\* call at the first option entry of the ticker that fails one; a failed
\* position check ends the process with exit(-1); the strikes are counted
\* before they are qualified, so an expiration without contracts reaches
\* min() of an empty list; the function ends without a return statement.
rollover(pos, mystock, mycalls, myexpiration, auto_flag, force_flag, stockval, todaystr, chain, status) ==
    LET underlyingPosition == LastPosition(pos, "Stock", mystock)
        optionPosition == LastPosition(pos, "Option", mystock)
        e == EntriesOf(pos, "Option", mystock)
        contracts == ContractsOf(chain, mystock, myexpiration)
        n == Len(contracts)
    IN  IF \E i \in 1..Len(e) :
               \/ auto_flag /\ todaystr # e[i].contract.lastTradeDateOrContractMonth
               \/ ~force_flag /\ stockval < e[i].contract.strike
        THEN Outcome("False", <<>>, pos)
        ELSE IF optionPosition > -mycalls
        THEN Outcome("exit", <<>>, pos)
        ELSE IF underlyingPosition < mycalls * 100
        THEN Outcome("exit", <<>>, pos)
        ELSE IF Len(chain.strikes) = 0
        THEN Outcome("False", <<>>, pos)
        ELSE IF n = 0
        THEN Outcome("ValueError", <<>>, pos)
        ELSE IF ScanLength(chain, n, 1, Far) = 0
        THEN Outcome("AttributeError", <<>>, pos)
        ELSE LET buy_back_contract == e[Len(e)].contract
                 best_delta_index == ScanUntilRise(chain, n)
                 covered_call_contract == contracts[best_delta_index]
                 combo == Combo(mystock, ComboLeg(buy_back_contract, 1, "BUY"),
                                ComboLeg(covered_call_contract, 1, "SELL"))
                 t == PlaceCombo(pos, combo, 1, status)
             IN  Outcome("None", <<t>>, t.positions)

\* ------------------------------------------ calls of a trading function
recordervars ==
    <<yespos, account_value, trades, loc, qqq, pc, ntrades, nfills, posted,
      clock, disk, run, positions, activity, hist>>

\* A trading function is called with the arguments and answers a, from its
\* own main() or from a session, fewer than maxOps calls after the
\* connection was made: trader.py is not running.  out is what the call
\* gives.
Called(maxOps, fn, a, out) ==
    /\ trader.pc = "idle"
    /\ last.seq < maxOps
    /\ last' = [seq |-> last.seq + 1, fn |-> fn, args |-> a,
                before |-> ib_positions, ret |-> out.ret, trades |-> out.trades]
    /\ ib_positions' = out.positions
    /\ UNCHANGED <<recordervars, trader>>

\* datetime.today().strftime('%Y%m%d') (rollover.py line 61).
Today == Calendar[clock.day].ymd

\* Numbers of contracts, and of shares in round lots.
Lots == 1..MaxLots

Shares == {100 * k : k \in Lots}

\* The price of A, below and above the strike of the held call.
StockVals == {48, 52}

\* CashBalance of the account: none, or enough for every order.
CashBalances == {0, 100000}

\* The strikes of a chain in the window, in rising order.
Strikes(n) == [i \in 1..n |-> 50 + 5 * i]

\* The chains of a session: no strike in the window, an expiration of which
\* no contract qualifies, one quoted strike, a ticker without model greeks.
OrderChains ==
    {Chain(<<>>, TRUE, <<>>),
     Chain(Strikes(1), FALSE, <<OptionComputation(40)>>),
     Chain(Strikes(1), TRUE, <<OptionComputation(40)>>),
     Chain(Strikes(1), TRUE, <<None>>)}

BuyStock ==
    \E a \in [mystock : {"A"}, myshares : Shares, stockval : {52},
              cash_balance : CashBalances, status : DoneStates] :
        Called(MaxOps, "buy_stock", a,
               buy_stock(ib_positions, a.mystock, a.myshares, a.stockval,
                         a.cash_balance, a.status))

SellStock ==
    \E a \in [mystock : {"A"}, myshares : Shares, status : DoneStates] :
        Called(MaxOps, "sell_stock", a,
               sell_stock(ib_positions, a.mystock, a.myshares, a.status))

\* One status for every order close_position can place: one for each option
\* entry of the ticker and one for the stock.
ClosePosition ==
    \E a \in [mystock : {"A"}] :
        \E statuses \in [1..(Len(EntriesOf(ib_positions, "Option", a.mystock)) + 1)
                            -> DoneStates] :
            Called(MaxOps, "close_position", a,
                   close_position(ib_positions, a.mystock, statuses))

BuybackCall ==
    \E a \in [mystock : {"A"}, mycalls : Lots, status : DoneStates] :
        Called(MaxOps, "buyback_call", a,
               buyback_call(ib_positions, a.mystock, a.mycalls, a.status))

CoveredCallOf(I, maxOps) ==
    \E a \in I :
        Called(maxOps, "covered_call", a,
               covered_call(ib_positions, a.mystock, a.mycalls, a.myexpiration,
                            a.auto_flag, a.chain, a.status))

BuyWriteOf(I, maxOps) ==
    \E a \in I :
        Called(maxOps, "buy_write", a,
               buy_write(ib_positions, a.mystock, a.mycalls, a.myexpiration,
                         a.stockval, a.cash_balance, a.chain, a.status))

RolloverOf(I, maxOps) ==
    \E a \in I :
        Called(maxOps, "rollover", a,
               rollover(ib_positions, a.mystock, a.mycalls, a.myexpiration,
                        a.auto_flag, a.force_flag, a.stockval, Today, a.chain,
                        a.status))

\* A call is written for today's expiration or next week's.
CallArgs ==
    [mystock : {"A"}, mycalls : Lots, myexpiration : {20230721, 20230728},
     auto_flag : BOOLEAN, chain : OrderChains, status : DoneStates]

\* A buy-write and a rollover write next week's call.
BuyWriteArgs ==
    [mystock : {"A"}, mycalls : Lots, myexpiration : {20230728},
     stockval : {52}, cash_balance : CashBalances, chain : OrderChains,
     status : DoneStates]

\* rollover is called with auto_flag and without force_flag from an AUTO
\* order, and the other way round from a ROLLOVER order (trader.py lines
\* 127, 160).
RolloverArgs ==
    {[mystock |-> "A", mycalls |-> n, myexpiration |-> 20230728,
      auto_flag |-> auto, force_flag |-> ~auto, stockval |-> v,
      chain |-> c, status |-> st] :
        n \in Lots, auto \in BOOLEAN, v \in StockVals, c \in OrderChains,
        st \in DoneStates}

CoveredCall == CoveredCallOf(CallArgs, MaxOps)

BuyWrite == BuyWriteOf(BuyWriteArgs, MaxOps)

Rollover == RolloverOf(RolloverArgs, MaxOps)

NextOrders ==
    \/ BuyStock
    \/ SellStock
    \/ ClosePosition
    \/ CoveredCall
    \/ BuybackCall
    \/ BuyWrite
    \/ Rollover

\* The accounts a session starts from: empty, the stock of A, the stock
\* with one call written on it, in either order of the entries.
Accounts ==
    {<<>>}
    \cup {<<Position(Stock("A"), n)>> : n \in Shares}
    \cup {<<Position(Stock("A"), n), Position(HeldCall("A"), -1)>> : n \in Shares}
    \cup {<<Position(HeldCall("A"), -1), Position(Stock("A"), 100)>>}

\* The recorder is idle, the connection is made at one of the times clocks
\* to one of accounts.
InitBroker(clocks, accounts) ==
    /\ yespos = <<>>
    /\ account_value \in AccountValues
    /\ trades = <<>>
    /\ loc = <<>>
    /\ qqq = NoContract
    /\ pc = "idle"
    /\ ntrades = 0
    /\ nfills = 0
    /\ posted = <<>>
    /\ clock \in clocks
    /\ disk = (PositionsFile :> <<>>) @@ (ActivityFile :> <<>>)
    /\ run = NoRun
    /\ positions = <<>>
    /\ activity = <<>>
    /\ hist = NoHist
    /\ ib_positions \in accounts
    /\ last = NoCall
    /\ trader = NoTrader

\* A session of Friday 2023-07-21, before the close.
InitOrders == InitBroker({[day |-> 2, hour |-> BeforeClose]}, Accounts)

SpecOrders == InitOrders /\ [][NextOrders]_vars

\* ------------------------------------------------ the strike search alone
\* Every chain of up to MaxStrikes qualified strikes, each ticker with one of
\* four deltas, in hundredths, or without model greeks.
ScanChains ==
    UNION {{Chain(Strikes(n), TRUE, g) :
                g \in [1..n -> {OptionComputation(d) : d \in {25, 40, 55, 70}}
                                \cup {None}]} :
           n \in 1..MaxStrikes}

\* One call to write or roll one contract, with every chain.
ScanCoveredCall ==
    CoveredCallOf([mystock : {"A"}, mycalls : {1}, myexpiration : {20230728},
                   auto_flag : {FALSE}, chain : ScanChains, status : {"Filled"}], 1)

ScanBuyWrite ==
    BuyWriteOf([mystock : {"A"}, mycalls : {1}, myexpiration : {20230728},
                stockval : {52}, cash_balance : {100000}, chain : ScanChains,
                status : {"Filled"}], 1)

ScanRollover ==
    RolloverOf([mystock : {"A"}, mycalls : {1}, myexpiration : {20230728},
                auto_flag : {FALSE}, force_flag : {TRUE}, stockval : {52},
                chain : ScanChains, status : {"Filled"}], 1)

NextScan ==
    \/ ScanCoveredCall
    \/ ScanBuyWrite
    \/ ScanRollover

InitScan ==
    InitBroker({[day |-> 2, hour |-> BeforeClose]},
               {<<Position(Stock("A"), 100)>>,
                <<Position(Stock("A"), 100), Position(HeldCall("A"), -1)>>})

SpecScan == InitScan /\ [][NextScan]_vars

\* ----------------------------------------------------- a run of trader.py
\* The lines of half_days.txt.
HalfDays == {"2023-07-20"}

\* is_holiday(datestr, half_day_flag) (ibutil.py lines 53-85).
is_holiday(datestr, half_day_flag) ==
    IF half_day_flag
    THEN datestr \in Holidays \/ datestr \in HalfDays
    ELSE datestr \in Holidays

\* A day is counted from the first of July 2023: n is July n, and 31 + n is
\* August n.
TwoDigits(n) ==
    SubSeq("0123456789", (n \div 10) + 1, (n \div 10) + 1)
        \o SubSeq("0123456789", (n % 10) + 1, (n % 10) + 1)

\* strftime('%Y-%m-%d') of the day n.
DateStr(n) ==
    IF n > 31 THEN "2023-08-" \o TwoDigits(n - 31) ELSE "2023-07-" \o TwoDigits(n)

\* strftime('%Y%m%d') of the day n.
YmdStr(n) == IF n > 31 THEN 20230800 + (n - 31) ELSE 20230700 + n

\* str.lower(): a capital letter gives the small one, any other character
\* itself.
RECURSIVE Lower(_)
Lower(str) ==
    IF Len(str) = 0 THEN ""
    ELSE LET c == SubSeq(str, 1, 1)
             capital == {k \in 1..26 : SubSeq("ABCDEFGHIJKLMNOPQRSTUVWXYZ", k, k) = c}
         IN  (IF capital = {} THEN c
              ELSE LET k == CHOOSE k \in capital : TRUE
                   IN  SubSeq("abcdefghijklmnopqrstuvwxyz", k, k))
             \o Lower(SubSeq(str, 2, Len(str)))

weekday_dict ==
    ("mon" :> 0) @@ ("tue" :> 1) @@ ("wed" :> 2) @@ ("thu" :> 3) @@ ("fri" :> 4)
        @@ ("sat" :> 5) @@ ("sun" :> 6)

\* A week is added while the day is a holiday or a half day (trader.py lines
\* 117-119).
RECURSIVE SkipHolidays(_)
SkipHolidays(n) ==
    IF is_holiday(DateStr(n), TRUE) THEN SkipHolidays(n + 7) ELSE n

\* The expiration of an AUTO order: the first day after today that falls on
\* the weekday daynum, moved on by weeks past holidays (trader.py lines
\* 112-120).  July 20, a Thursday, has weekday() 3.
NextExpiration(today, daynum) ==
    LET ndaysahead == CHOOSE k \in 1..7 : (today + k - 17) % 7 = daynum
    IN  YmdStr(SkipHolidays(today + ndaysahead))

\* A row of the manifest.
Order(date, action, ticker, num, expiration) ==
    [date |-> date, action |-> action, ticker |-> ticker, num |-> num,
     expiration |-> expiration]

\* The manifests: up to MaxOrders rows, each an order of 2023-07-21, one
\* of the day before, or an AUTO order, whose date cell is empty.
Manifests ==
    LET Orders ==
    {Order("", "AUTO", "A", 1, "Friday"),
     Order("", "AUTO", "A", 1, "Monday"),
     Order("2023-07-21", "BUY", "A", 100, ""),
     Order("2023-07-21", "SELL", "A", 100, ""),
     Order("2023-07-21", "CLOSE", "A", 0, ""),
     Order("2023-07-21", "BUY WRITE", "A", 1, 20230728),
     Order("2023-07-21", "SELL CC", "A", 1, 20230728),
     Order("2023-07-21", "BUYBACK CC", "A", 1, ""),
     Order("2023-07-21", "ROLLOVER", "A", 1, 20230728),
     Order("2023-07-20", "BUY", "A", 100, "")}
    IN  UNION {[1..n -> Orders] : n \in 0..MaxOrders}

\* The market one order meets: the chain of the ticker, its price, the cash
\* of the account and how the order placed ends.
TraderMarkets ==
    [chain : {Chain(<<>>, TRUE, <<>>),
              Chain(Strikes(1), TRUE, <<OptionComputation(40)>>)},
     stockval : StockVals, cash_balance : CashBalances, status : DoneStates]

auto_orders(manifest) == SelectSeq(manifest, LAMBDA o : o.action = "AUTO")

today_orders(manifest) ==
    SelectSeq(manifest, LAMBDA o : o.date = Calendar[clock.day].date)

\* What the run does after the order n of the loop phase gave out: exit(-1)
\* ends the process, an exception ends main(), otherwise the loop goes on.
After(phase, n, out) ==
    IF out.ret = "exit" THEN [pc |-> "exited", n |-> n]
    ELSE IF out.ret \notin {"True", "False", "None"} THEN [pc |-> "raised", n |-> n]
    ELSE IF phase = "auto" /\ n < Len(auto_orders(trader.manifest))
         THEN [pc |-> "auto", n |-> n + 1]
    ELSE IF phase = "auto" /\ today_orders(trader.manifest) # <<>>
         THEN [pc |-> "dated", n |-> 1]
    ELSE IF phase = "dated" /\ n < Len(today_orders(trader.manifest))
         THEN [pc |-> "dated", n |-> n + 1]
    ELSE [pc |-> "log", n |-> 0]

\* The order at trader.n of a loop called fn with the arguments and answers
\* a, which gave out.
Ordered(phase, fn, a, out) ==
    LET nxt == After(phase, trader.n, out)
    IN  /\ last' = [seq |-> last.seq + 1, fn |-> fn, args |-> a,
                    before |-> ib_positions, ret |-> out.ret,
                    trades |-> out.trades]
        /\ ib_positions' = out.positions
        /\ trader' = [trader EXCEPT !.pc = nxt.pc, !.n = nxt.n,
                                    !.status = Append(@, out.ret),
                                    !.trades = @ \o out.trades]
        /\ UNCHANGED recordervars

\* main() up to the loops (trader.py lines 69-101): outside trading hours
\* it returns False.  The clock has no minutes: no run is made from 9:00 to
\* 9:29.
StartTrader ==
    /\ trader.pc = "idle"
    /\ \E manifest \in Manifests :
        LET outside ==
                \/ is_holiday(Calendar[clock.day].date, TRUE)
                \/ Calendar[clock.day].weekday > 4
                \/ clock.hour >= 16
                \/ clock.hour < 9
            run0 == [trader EXCEPT !.manifest = manifest]
        IN  trader' =
                IF outside THEN [trader EXCEPT !.pc = "returned"]
                ELSE IF SelectSeq(manifest, LAMBDA o : o.action = "AUTO") # <<>>
                     THEN [run0 EXCEPT !.pc = "auto", !.n = 1]
                ELSE IF SelectSeq(manifest,
                                  LAMBDA o : o.date = Calendar[clock.day].date) # <<>>
                     THEN [run0 EXCEPT !.pc = "dated", !.n = 1]
                ELSE [run0 EXCEPT !.pc = "log"]
    /\ UNCHANGED <<recordervars, ib_positions, last>>

\* One pass of the loop over the AUTO orders (trader.py lines 103-127).
AutoOrder ==
    /\ trader.pc = "auto"
    /\ \E m \in TraderMarkets :
        LET o == auto_orders(trader.manifest)[trader.n]
            dayofweek ==
                Lower(SubSeq(o.expiration, 1,
                             IF Len(o.expiration) < 3 THEN Len(o.expiration) ELSE 3))
        IN  IF dayofweek \notin DOMAIN weekday_dict
            THEN Ordered("auto", "weekday_dict", [key |-> dayofweek],
                         Outcome("KeyError", <<>>, ib_positions))
            ELSE
            LET myexpiration ==
                    NextExpiration(Calendar[clock.day].ymd % 100,
                                   weekday_dict[dayofweek])
                cc == [mystock |-> o.ticker, mycalls |-> o.num,
                       myexpiration |-> myexpiration, auto_flag |-> TRUE,
                       chain |-> m.chain, status |-> m.status]
                ro == [mystock |-> o.ticker, mycalls |-> o.num,
                       myexpiration |-> myexpiration, auto_flag |-> TRUE,
                       force_flag |-> FALSE, stockval |-> m.stockval,
                       chain |-> m.chain, status |-> m.status]
                rollstatus ==
                    covered_call(ib_positions, cc.mystock, cc.mycalls, cc.myexpiration,
                                 TRUE, cc.chain, cc.status)
            IN  IF rollstatus.ret # "False"
                THEN Ordered("auto", "covered_call", cc, rollstatus)
                ELSE Ordered("auto", "rollover", ro,
                             rollover(ib_positions, ro.mystock, ro.mycalls,
                                      ro.myexpiration, TRUE, FALSE, ro.stockval,
                                      Today, ro.chain, ro.status))

\* One pass of the loop over the orders of today (trader.py lines 131-160).
DatedOrder ==
    /\ trader.pc = "dated"
    /\ \E m \in TraderMarkets :
        LET o == today_orders(trader.manifest)[trader.n]
            mystock == o.ticker
        IN  CASE o.action = "BUY WRITE" ->
                    Ordered("dated", "buy_write",
                            [mystock |-> mystock, mycalls |-> o.num,
                             myexpiration |-> o.expiration, stockval |-> m.stockval,
                             cash_balance |-> m.cash_balance, chain |-> m.chain,
                             status |-> m.status],
                            buy_write(ib_positions, mystock, o.num, o.expiration,
                                      m.stockval, m.cash_balance, m.chain, m.status))
              [] o.action = "BUY" ->
                    Ordered("dated", "buy_stock",
                            [mystock |-> mystock, myshares |-> o.num,
                             stockval |-> m.stockval,
                             cash_balance |-> m.cash_balance, status |-> m.status],
                            buy_stock(ib_positions, mystock, o.num, m.stockval,
                                      m.cash_balance, m.status))
              [] o.action = "SELL" ->
                    Ordered("dated", "sell_stock",
                            [mystock |-> mystock, myshares |-> o.num,
                             status |-> m.status],
                            sell_stock(ib_positions, mystock, o.num, m.status))
              [] o.action = "CLOSE" ->
                    Ordered("dated", "close_position", [mystock |-> mystock],
                            close_position(ib_positions, mystock,
                                [i \in 1..(Len(EntriesOf(ib_positions, "Option",
                                                         mystock)) + 1)
                                    |-> m.status]))
              [] o.action = "BUYBACK CC" ->
                    Ordered("dated", "buyback_call",
                            [mystock |-> mystock, mycalls |-> o.num,
                             status |-> m.status],
                            buyback_call(ib_positions, mystock, o.num, m.status))
              [] o.action = "SELL CC" ->
                    Ordered("dated", "covered_call",
                            [mystock |-> mystock, mycalls |-> o.num,
                             myexpiration |-> o.expiration, auto_flag |-> FALSE,
                             chain |-> m.chain, status |-> m.status],
                            covered_call(ib_positions, mystock, o.num, o.expiration,
                                         FALSE, m.chain, m.status))
              [] o.action = "ROLLOVER" ->
                    Ordered("dated", "rollover",
                            [mystock |-> mystock, mycalls |-> o.num,
                             myexpiration |-> o.expiration, auto_flag |-> FALSE,
                             force_flag |-> TRUE, stockval |-> m.stockval,
                             chain |-> m.chain, status |-> m.status],
                            rollover(ib_positions, mystock, o.num, o.expiration,
                                     FALSE, TRUE, m.stockval, Today, m.chain,
                                     m.status))

\* The end of main() (trader.py lines 161-176): the trades of the session
\* are pickled when there are any.
SaveTradesLog ==
    /\ trader.pc = "log"
    /\ trader' = [trader EXCEPT !.pc = "done"]
    /\ disk' = IF trader.trades # <<>>
               THEN (DatedFile("trades", Calendar[clock.day], ".pkl")
                        :> trader.trades) @@ disk
               ELSE disk
    /\ UNCHANGED <<yespos, account_value, trades, loc, qqq, pc, ntrades, nfills,
                   posted, clock, run, positions, activity, hist, ib_positions,
                   last>>

NextTrader ==
    \/ StartTrader
    \/ AutoOrder
    \/ DatedOrder
    \/ SaveTradesLog

\* trader.py is started on any day of the calendar, before or at the close,
\* on an account that is empty, holds the stock of A, or holds it with the
\* call written on it.
InitTrader ==
    InitBroker([day : 1..Len(Calendar), hour : {BeforeClose, CloseHour}],
               {<<>>, <<Position(Stock("A"), 100)>>,
                <<Position(Stock("A"), 100), Position(HeldCall("A"), -1)>>})

SpecTrader == InitTrader /\ [][NextTrader]_vars

TypeOK ==
    /\ pc \in {"loop", "bag", "fills", "done", "raised"} \cup Terminal
            \cup {"fetch", "process", "portfolio", "adjust"}
    /\ ntrades \in Nat
    /\ nfills \in Nat
    /\ Len(posted) = nfills

\* ------------------------------------------------------ history operators
RECURSIVE SumSeq(_)
SumSeq(s) == IF s = <<>> THEN 0 ELSE Head(s) + SumSeq(Tail(s))

\* The fills posted so far to the row of key k, in posting order.
PostedTo(k) == SelectSeq(posted, LAMBDA p : p.key = k)

\* Signed size of a posted fill: negative for a sale.
SignedSize(p) == IF p.fill.side = "SLD" THEN -p.fill.shares ELSE p.fill.shares

\* Signed dollar value of a posted fill.
LegValue(p) ==
    SignedSize(p) * p.fill.price
    * (IF p.leg = "Option" THEN p.fill.contract.multiplier ELSE 1)

LastPosted == posted[Len(posted)]

\* Every fill posted so far is a fill of one leg of one order.
OneLeg ==
    /\ posted # <<>>
    /\ \A i \in 1..Len(posted) :
        /\ posted[i].order = posted[1].order
        /\ posted[i].leg = posted[1].leg
        /\ posted[i].key = posted[1].key

\* ------------------------------------------------------------------ claims

\* C1: after every posted fill, `position bal` of every row equals the sum
\* of the signed dollar values of exactly the fills posted to that row.
C1_PositionBalIsSumOfPostedLegs ==
    \A k \in DOMAIN trades :
        PostedTo(k) # <<>> =>
            Cell(trades[k], "position bal")
                = SumSeq([i \in 1..Len(PostedTo(k)) |-> LegValue(PostedTo(k)[i])])

\* C2: when a leg of an order executes as several fills, the row's commission
\* is the sum of the commissions of all those fills, each counted once.
C2_CommissionIsSumOfFills ==
    OneLeg =>
        Cell(trades[posted[1].key], "Commission")
            = SumSeq([i \in 1..Len(posted) |-> posted[i].fill.commission])

\* C3: when a leg of an order executes as several fills, the realized P&L of
\* the row (`P/L underlying` for a stock leg, `P/L option` for an option leg)
\* is the sum of the realized P&L of all those fills.
C3_RealizedPNLIsSumOfFills ==
    OneLeg =>
        Cell(trades[posted[1].key],
             IF posted[1].leg = "Stock" THEN "P/L underlying" ELSE "P/L option")
            = SumSeq([i \in 1..Len(posted) |-> posted[i].fill.realizedPNL])

\* The fills of the n-th order, in posting order.
FillsOf(n) ==
    LET ps == SelectSeq(posted, LAMBDA p : p.order = n)
    IN  [i \in 1..Len(ps) |-> ps[i].fill]

\* A stock-only or option-only order with the given fills, handled from the
\* dictionary and locals st as the loop handles it.
RECURSIVE RunFills(_, _, _)
RunFills(st, c, fills) ==
    IF fills = <<>> THEN st
    ELSE LET r == IF c.type = "Stock"
                  THEN StockOnlyFill(st.trades, yespos, account_value, c, st.loc, Head(fills))
                  ELSE OptionOnlyFill(st.trades, yespos, account_value, c, st.loc, Head(fills))
         IN  RunFills([trades |-> r.trades, loc |-> r.loc], c, Tail(fills))

RunOrder(st, fills) ==
    LET c == fills[1].contract
    IN  RunFills([trades |-> WithRow(st.trades, c.symbol), loc |-> st.loc], c, fills)

\* The branches of the loop that posted the fills of the n-th order.
BranchesOf(n) == {posted[i].branch : i \in {j \in 1..Len(posted) : posted[j].order = n}}

\* The run handled exactly a stock order and an option order, each with fills.
StockAndOptionOrder ==
    /\ pc = "loop" /\ ntrades = 2
    /\ {BranchesOf(1), BranchesOf(2)} = {{"Stock"}, {"Option"}}

\* C4: one stock order and one option order of a ticker give the same merged
\* row, every column, when the two orders are handled in the other order.
C4_LegOrderCommutes ==
    StockAndOptionOrder =>
        trades = RunOrder(RunOrder([trades |-> <<>>, loc |-> <<>>], FillsOf(2)),
                          FillsOf(1)).trades

OptionLabels == {"SELL CC", "CLOSE CC", "BUY CALL"}

\* The fills posted so far are fills of stock-only and option-only orders.
NoBagPosted == \A i \in 1..Len(posted) : posted[i].branch \in {"Stock", "Option"}

HasLeg(leg) == \E i \in 1..Len(posted) : posted[i].leg = leg

\* C5: with a stock trade and an option trade of the ticker, the label is one
\* stock side followed by one option label, whatever the number of partial
\* fills; a stock-only trade is labelled with the raw side alone.
C5_LabelIsSideThenOptionLabel ==
    (NoBagPosted /\ HasLeg("Stock")) =>
        LET action == trades[LastPosted.key]["action"] IN
        IF HasLeg("Option")
        THEN action \in {side \o " " \o label : side \in Sides, label \in OptionLabels}
        ELSE action \in Sides

SetMax(S) == CHOOSE m \in S : \A x \in S : x <= m

\* The rows of yesterday's ledger for the symbol of the last posted fill.
YesOfLast == Filt(yespos, LastPosted.fill.contract.symbol)

YesValues(col) == {YesOfLast[i][col] : i \in 1..Len(YesOfLast)}

\* The last posted fill is a stock leg of a ticker yesterday's ledger has.
StockLegOnHeldTicker ==
    posted # <<>> /\ LastPosted.leg = "Stock" /\ YesOfLast # <<>>

\* C6 as stated: for a stock leg on a ticker with a row in yesterday's ledger,
\* trade price and leg price are yesterday's values, never the execution price.
C6_BasisAlwaysCarried ==
    StockLegOnHeldTicker =>
        /\ trades[LastPosted.key]["trade price"] \in YesValues("trade price")
        /\ trades[LastPosted.key]["leg price"] \in YesValues("leg price")

\* The last posted fill is a stock-only purchase that brings today's shares
\* to the negative of yesterday's underlying size.
ClosesShort ==
    /\ LastPosted.branch = "Stock" /\ LastPosted.fill.side = "BOT"
    /\ trades[LastPosted.key]["Underlying size"] = -YesOfLast[1]["Underlying size"]

\* C6 as amended: for a stock leg on a ticker with a row in yesterday's
\* ledger, trade price and leg price are the maximum of yesterday's values
\* when the fill is a sale or a stock-only purchase that closes yesterday's
\* short; every other purchase sets both to the execution price.
C6_BasisCarriedOrReset ==
    StockLegOnHeldTicker =>
        LET row == trades[LastPosted.key] IN
        IF LastPosted.fill.side = "SLD" \/ ClosesShort
        THEN /\ row["trade price"] = SetMax(YesValues("trade price"))
             /\ row["leg price"] = SetMax(YesValues("leg price"))
        ELSE /\ row["trade price"] = LastPosted.fill.price
             /\ row["leg price"] = LastPosted.fill.price

\* A purchase closed yesterday's short and the row carries yesterday's basis.
C6_Witness ==
    /\ StockLegOnHeldTicker /\ ClosesShort
    /\ trades[LastPosted.key]["trade price"] = YesShort["trade price"]
    /\ trades[LastPosted.key]["leg price"] = YesShort["leg price"]

\* The last posted fill is a stock-only sale of a ticker with no row in
\* yesterday's ledger and no purchase of the stock today.
ShortSaleWithoutBasis ==
    /\ posted # <<>>
    /\ LastPosted.branch = "Stock" /\ LastPosted.fill.side = "SLD"
    /\ YesOfLast = <<>>
    /\ \A i \in 1..Len(posted) :
        ~(posted[i].leg = "Stock" /\ posted[i].fill.side = "BOT")

C8_ClassifierRule ==
    [][(pc = "bag" /\ pc' = "fills") =>
        LET legs == qqq.comboLegs
            class == loc'["action"]
            opposite == /\ legs[1].ratio = 1 /\ legs[2].ratio = 1
                        /\ legs[1].action # legs[2].action
            buys100 == \E i \in {1, 2} : legs[i].ratio = 100 /\ legs[i].action = "BUY"
        IN  /\ class \in {"ROLLOVER", "BUY WRITE", "Unknown"}
            /\ (class = "ROLLOVER") <=> opposite
            /\ (class = "BUY WRITE") <=> (~opposite /\ buys100)
            /\ class = ComboClassifier(Bag(qqq.symbol, legs[2], legs[1]))]_vars

\* The classification step has labelled a Bag order BUY WRITE.
C8_Witness ==
    /\ pc = "fills" /\ qqq.type = "Bag" /\ nfills = 0
    /\ loc["action"] = "BUY WRITE"

\* The run is one ROLLOVER Bag whose fills so far are one bought and one sold
\* option leg, and yesterday's ledger has exactly one row of the ticker.
RolloverPair ==
    /\ ntrades = 1 /\ Len(posted) = 2
    /\ posted[1].branch = "ROLLOVER"
    /\ posted[1].leg = "Option" /\ posted[2].leg = "Option"
    /\ {posted[1].fill.side, posted[2].fill.side} = {"BOT", "SLD"}
    /\ Len(Filt(yespos, qqq.symbol)) = 1

PostedSide(side) == (CHOOSE i \in 1..Len(posted) : posted[i].fill.side = side)

\* The columns an option leg writes from its own contract and execution.
OwnOptionColumns(row, fill, size) ==
    /\ row["strike"] = fill.contract.strike
    /\ row["DOE"] = fill.contract.lastTradeDateOrContractMonth
    /\ row["Option size"] = size
    /\ row["option price"] = fill.price

\* C9: a ROLLOVER combo gives two rows whichever fill arrives first: `ticker`
\* with ROLLOVER CLOSE and yesterday's option trade price, `ticker*` with
\* ROLLOVER WRITE and the sold fill's price, each with its own leg's columns.
C9_RolloverTwoRows ==
    RolloverPair =>
        LET bot == posted[PostedSide("BOT")].fill
            sld == posted[PostedSide("SLD")].fill
            sym == qqq.symbol
        IN  /\ DOMAIN trades = {sym, sym \o "*"}
            /\ trades[sym]["action"] = "ROLLOVER CLOSE"
            /\ trades[sym]["option trade price"]
                 = Filt(yespos, sym)[1]["option trade price"]
            /\ OwnOptionColumns(trades[sym], bot, bot.shares)
            /\ trades[sym \o "*"]["action"] = "ROLLOVER WRITE"
            /\ trades[sym \o "*"]["option trade price"] = sld.price
            /\ OwnOptionColumns(trades[sym \o "*"], sld, -sld.shares)
            /\ trades[sym \o "*"]["ticker"] = sym

\* The sold leg of a rollover arrived before the bought leg.
C9_Witness ==
    /\ RolloverPair /\ posted[1].fill.side = "SLD"
    /\ trades[qqq.symbol]["option trade price"] = YesLong["option trade price"]

\* The run is one BUY WRITE Bag whose fills so far are the bought stock leg
\* and the sold option leg.
BuyWritePair ==
    /\ ntrades = 1 /\ Len(posted) = 2
    /\ posted[1].branch = "BUY WRITE"
    /\ {posted[1].leg, posted[2].leg} = {"Stock", "Option"}
    /\ \A i \in 1..2 :
        posted[i].fill.side = (IF posted[i].leg = "Stock" THEN "BOT" ELSE "SLD")

PostedLeg(leg) == (CHOOSE i \in 1..Len(posted) : posted[i].leg = leg)

\* C10: a BUY WRITE combo gives one merged row, action BUY WRITE, underlying
\* size +shares bought, option size -contracts sold, trade price the stock
\* price and option trade price the option price, whichever fill arrives
\* first, and no `ticker*` row.
C10_BuyWriteOneRow ==
    BuyWritePair =>
        LET stk == posted[PostedLeg("Stock")].fill
            opt == posted[PostedLeg("Option")].fill
            row == trades[qqq.symbol]
        IN  /\ DOMAIN trades = {qqq.symbol}
            /\ row["action"] = "BUY WRITE"
            /\ row["Underlying size"] = stk.shares
            /\ row["Option size"] = -opt.shares
            /\ row["trade price"] = stk.price
            /\ row["option trade price"] = opt.price

\* The option leg of a buy-write arrived before the stock leg, on a ticker
\* yesterday's ledger already has.
C10_Witness ==
    /\ BuyWritePair /\ posted[1].leg = "Option"
    /\ Filt(yespos, qqq.symbol) # <<>>

\* The column that holds the size of a posted fill's leg.
SizeColumn(p) == IF p.leg = "Stock" THEN "Underlying size" ELSE "Option size"

\* C11: the first fill a run posts is recorded with a signed size, negative
\* for a sale and positive for a purchase, in shares for a stock leg and in
\* contracts for an option leg, whatever the order type.
C11_SizeIsSigned ==
    Len(posted) = 1 =>
        trades[posted[1].key][SizeColumn(posted[1])] = SignedSize(posted[1])

\* The run handled one stock-only order, all of its fills purchases, on a
\* ticker yesterday's ledger has no row of.
OpeningPurchase ==
    /\ OneLeg /\ posted[1].branch = "Stock"
    /\ \A i \in 1..Len(posted) : posted[i].fill.side = "BOT"
    /\ Filt(yespos, posted[1].key) = <<>>

\* C20: a stock purchase on a ticker with no row in yesterday's ledger gives
\* a row with action BOT, trade price and leg price both the execution
\* price, and underlying size the number of shares bought.
C20_OpeningPurchaseRow ==
    OpeningPurchase =>
        LET row == trades[posted[1].key]
        IN  /\ row["action"] = "BOT"
            /\ row["trade price"] = LastPosted.fill.price
            /\ row["leg price"] = LastPosted.fill.price
            /\ row["Underlying size"]
                 = SumSeq([i \in 1..Len(posted) |-> posted[i].fill.shares])

\* One purchase of one share opened the position.
C20_Witness ==
    /\ OpeningPurchase /\ Len(posted) = 1
    /\ trades[posted[1].key]["Underlying size"] = posted[1].fill.shares

\* ------------------------------------------------- claims on whole runs
\* The tickers of a portfolio snapshot.
TickersOf(prt) == {prt[i].contract.symbol : i \in 1..Len(prt)}

\* The rows of a frame with the ticker sym.
RowsOf(rows, sym) == SelectSeq(rows, LAMBDA r : r["ticker"] = sym)

\* The ledger as positions.xlsx holds it.
Ledger == disk[PositionsFile]

\* C15: a run that fetches its trades live never stops on an exception,
\* whatever the fills, the portfolio snapshot and the prior ledger, and the
\* ledger it persists has a row for every ticker of the portfolio snapshot.
C15_RunCompletesWithEveryTicker ==
    /\ run.read_trades_flag => pc # "raised"
    /\ pc = "ended" =>
        \A sym \in TickersOf(run.port) : RowsOf(Ledger, sym) # <<>>

\* The portfolio pass is over for a ticker with more rows in the prior
\* ledger than allowed: more than one, the ticker without a rollover today.
Ambiguous(sym) ==
    /\ pc \in {"adjust", "ended"}
    /\ sym \in TickersOf(run.port)
    /\ Len(Filt(yespos, sym)) > 1
    /\ Cardinality(TradeKeysOf(trades, sym)) # 2

HasItem(sym, type) ==
    \E i \in 1..Len(run.port) :
        run.port[i].contract.symbol = sym /\ run.port[i].contract.type = type

\* C16: the portfolio row of a ticker with more rows in the prior ledger
\* than allowed has the sentinel -9999 in its basis fields, the trade price
\* and leg price of a stock position and the option trade price of an
\* option position, whether or not the ticker traded today, and the run
\* does not stop on it.
C16_AmbiguousLedgerGivesSentinel ==
    /\ \A sym \in {"A", "B"} :
        Ambiguous(sym) =>
            LET row == positions[sym]
            IN  /\ HasItem(sym, "Stock") =>
                    /\ row["trade price"] = Sentinel
                    /\ row["leg price"] = Sentinel
                /\ HasItem(sym, "Option") =>
                    row["option trade price"] = Sentinel
    /\ (/\ pc = "raised" /\ run.port # <<>>
        /\ \A sym \in TickersOf(run.port) : Len(Filt(yespos, sym)) > 1
        /\ trades = <<>>)
       => TickersOf(run.port) \ DOMAIN positions # {}

Weekend(day) == day.weekday \in {5, 6}

TradingHoliday(day) == day.date \in Holidays

\* C17: in the ledger a run persists, the action of a row differs from the
\* action the portfolio pass gave it only when the run is made after the
\* close and the row has an option that expires today or earlier; the
\* action is then Called Away when the strike is at or below the price of
\* the underlying and Expire CC otherwise.  No other cell is changed.
C17_PostCloseAdjustment ==
    pc = "ended" =>
        LET before == Reindex(positions, run.pos)
            today == Calendar[run.day].ymd
        IN  /\ Len(Ledger) = Len(before)
            /\ \A i \in 1..Len(before) :
                LET expired == /\ before[i]["DOE"] # NaN
                               /\ before[i]["DOE"] <= today
                    itm == /\ before[i]["price"] # NaN
                           /\ before[i]["strike"] <= before[i]["price"]
                IN  Ledger[i] =
                        [before[i] EXCEPT !["action"] =
                            IF run.hour >= CloseHour /\ expired
                            THEN (IF itm THEN "Called Away" ELSE "Expire CC")
                            ELSE @]

\* A run after the close has marked a position as called away.
C17_Witness ==
    /\ pc = "ended"
    /\ run.hour >= CloseHour
    /\ \E i \in 1..Len(Ledger) :
        Ledger[i]["action"] = "Called Away" /\ positions[Ledger[i]["ticker"]]["action"] = "OBSERVE"

\* C19: a run on a weekend day or a trading holiday returns False at the
\* trading-day test and leaves every file as it found it; recorder() is
\* never past that test on such a day.
C19_NoTradingDayIsNoOp ==
    LET today == Calendar[run.day]
    IN  /\ (Weekend(today) \/ TradingHoliday(today)) /\ hist.runs > 0
            => pc = "returned"
        /\ pc = "returned" =>
            /\ Weekend(today) \/ TradingHoliday(today)
            /\ disk = hist.disk0

\* A run on the Saturday, after an earlier run wrote its files.
C19_Witness ==
    /\ pc = "returned"
    /\ Weekend(Calendar[run.day])
    /\ hist.ledger_day # 0

\* ------------------------------------------- claims on sequences of runs
\* recorder() has read the ledger and is still running.
Running == pc \in {"fetch", "process", "portfolio", "adjust"}

\* C12: the prior ledger a run reads was written on an earlier day, never
\* by an earlier run of the same day.
C12_PriorLedgerIsOfEarlierDay ==
    Running => hist.read_day < run.day

\* The records of an activity log, without the type of their date cells.
CellsOf(log) == [i \in 1..Len(log) |-> log[i].cells]

\* The log of activity.xlsx is the log the run found, then the run's trade
\* rows, then its portfolio rows.
Appended ==
    /\ Len(disk[ActivityFile])
         = Len(hist.log0) + Len(hist.trades_df) + Len(hist.port_df)
    /\ CellsOf(disk[ActivityFile])
         = CellsOf(hist.log0) \o hist.trades_df \o hist.port_df

\* The log the run found is a prefix of the log of activity.xlsx.
OnlyGrows ==
    /\ Len(disk[ActivityFile]) >= Len(hist.log0)
    /\ SubSeq(CellsOf(disk[ActivityFile]), 1, Len(hist.log0)) = CellsOf(hist.log0)

C18_RecoveryReadsTodaysFile ==
    (pc = "process" /\ run.recover_trades_flag) =>
        LET f == DatedFile("trades", Calendar[run.day], ".pkl")
        IN  f \in DOMAIN disk /\ run.trds = disk[f]

\* The order of a trade list is an option-only order of one fill of side sd.
OptionOrderOf(trds, sd) ==
    /\ Len(trds) = 1
    /\ trds[1].contract.type = "Option"
    /\ Len(trds[1].fills) = 1
    /\ trds[1].fills[1].side = sd

HoldsIn(prt, con) == \E i \in 1..Len(prt) : prt[i].contract = con

\* Runs i and i+1 of the completed runs are on consecutive days; the first
\* found A in the ledger, handled the sale of a call on A and saw the stock
\* and the call in the portfolio; the second handled the purchase of that
\* call and saw the stock.
SellThenClose(i) ==
    LET r1 == hist.done[i]
        r2 == hist.done[i + 1]
    IN  /\ r2.day = r1.day + 1
        /\ Len(Filt(r1.yespos, "A")) = 1
        /\ OptionOrderOf(r1.trds, "SLD")
        /\ HoldsIn(r1.port, Stock("A"))
        /\ HoldsIn(r1.port, r1.trds[1].contract)
        /\ OptionOrderOf(r2.trds, "BOT")
        /\ r2.trds[1].contract = r1.trds[1].contract
        /\ HoldsIn(r2.port, Stock("A"))

\* C13: SELL CC on one day and CLOSE CC on the next, no stock trade on
\* either: the ledger's trade price of the ticker is after both days the
\* trade price P the ledger had before, and the option trade price of the
\* second day's trade row is the price the call was sold at on the first.
C13_BasisSurvivesSellThenClose ==
    \A i \in 1..(Len(hist.done) - 1) :
        SellThenClose(i) =>
            LET r1 == hist.done[i]
                r2 == hist.done[i + 1]
                P == Filt(r1.yespos, "A")[1]["trade price"]
            IN  /\ RowsOf(r1.ledger, "A")[1]["trade price"] = P
                /\ RowsOf(r2.ledger, "A")[1]["trade price"] = P
                /\ r2.trades["A"]["action"] = "CLOSE CC"
                /\ r2.trades["A"]["option trade price"] = r1.trds[1].fills[1].price

\* The two days were run and the call was bought back at another price
\* than it was sold at.
C13_Witness ==
    /\ Len(hist.done) = 2
    /\ SellThenClose(1)
    /\ hist.done[2].trds[1].fills[1].price # hist.done[1].trds[1].fills[1].price

\* ------------------------------------------- claims on the rows of a day
\* The sold option leg of a Bag classified ROLLOVER has been posted.
RolloverSellPosted ==
    \E i \in 1..Len(posted) :
        /\ posted[i].leg = "Option" /\ posted[i].fill.side = "SLD"
        /\ posted[i].branch \in {"ROLLOVER", "ROLLOVER CLOSE", "ROLLOVER WRITE"}

\* C29: at any point of the trade pass the trades dictionary has at most two
\* rows of a ticker, the `ticker` row and the `ticker*` row; two rows exist
\* only when the sold leg of a rollover was posted, and then the `ticker*`
\* row the two-row branch of the portfolio pass reads is there.
C29_AtMostTwoRowsPerTicker ==
    \A sym \in Symbols :
        LET n == Cardinality(TradeKeysOf(trades, sym))
        IN  /\ n <= 2
            /\ TradeKeysOf(trades, sym) \subseteq {sym, sym \o "*"}
            /\ n = 2 => /\ RolloverSellPosted
                        /\ (sym \o "*") \in DOMAIN trades
                        /\ "option trade price" \in DOMAIN trades[sym \o "*"]

\* A rollover's sold leg was posted and the trade pass is over with two rows
\* of the ticker.
C29_Witness ==
    /\ pc = "done" /\ RolloverSellPosted
    /\ Cardinality(TradeKeysOf(trades, "A")) = 2

\* ---------------------------------------- claims on the portfolio pass
\* The portfolio pass is over and sym, a ticker of the snapshot, has one
\* trade row today, labelled label.
SingleTradeRow(sym, label) ==
    /\ pc \in {"adjust", "ended"}
    /\ sym \in TickersOf(run.port) /\ sym \in DOMAIN positions
    /\ TradeKeysOf(trades, sym) = {sym}
    /\ "action" \in DOMAIN trades[sym] /\ trades[sym]["action"] = label

\* C28: a ticker whose single trade row today is SELL CC (CLOSE CC) gets
\* the action UNMATCHED SELL CC (UNMATCHED CLOSE CC) exactly when
\* yesterday's ledger has no row of it and ERROR exactly when yesterday's
\* ledger has more than one, whatever the other rows of that ledger.
C28_UnmatchedIffNoPriorRow ==
    \A sym \in {"A", "B"} : \A label \in {"SELL CC", "CLOSE CC"} :
        SingleTradeRow(sym, label) =>
            LET n2 == Len(Filt(yespos, sym))
                action == positions[sym]["action"]
            IN  /\ action = "UNMATCHED " \o label <=> n2 = 0
                /\ action = "ERROR" <=> n2 > 1

\* The locals the row update of a portfolio item reads.
BasisRead(ppp) ==
    IF ppp.contract.type = "Stock" THEN {"trade_price", "leg_price"}
    ELSE {"option_trade_price"}

\* The locals bound for a ticker by code that handles the ticker itself:
\* the block run at its first item, the stock branch when one of the
\* flags of that block is set, and the trade pass when every order of the
\* day is on this ticker.
OwnBasis(sym) ==
    LET f == FirstOfTicker(trades, yespos, sym, <<>>).loc
        st0 == [trades |-> <<>>, loc |-> <<>>, err |-> ""]
    IN  DOMAIN f
        \cup (IF f["rollover_flag"] \/ f["sell_CC_flag"] \/ f["close_CC_flag"]
              THEN {"leg_price"} ELSE {})
        \cup (IF \A i \in 1..Len(run.trds) : run.trds[i].contract.symbol = sym
              THEN DOMAIN TradeLoop(st0, yespos, account_value, run.trds).loc
              ELSE {})

\* C27: every basis value the portfolio pass writes to a row (trade price,
\* leg price, option trade price) was resolved for the ticker of that row,
\* never for a ticker processed before it, whatever the label of today's
\* trade and the order of the snapshot.
C27_BasisIsOfOwnTicker ==
    pc \in {"adjust", "ended"} =>
        \A i \in 1..Len(run.port) :
            BasisRead(run.port[i]) \subseteq OwnBasis(run.port[i].contract.symbol)

\* ------------------------------------------------- claims on market data
\* The option items of the run's snapshot.
OptionItems == {i \in 1..Len(run.port) : run.port[i].contract.type = "Option"}

\* C21: the delta the portfolio pass writes for an option item is the model
\* delta when the contract resolves and its ticker has model greeks, -99
\* when it resolves without model greeks and -999 when it does not resolve;
\* the lookup ends with one of these for every answer of the connection.
C21_DeltaLookup ==
    pc \in {"adjust", "ended"} =>
        \A i \in OptionItems :
            LET ppp == run.port[i]
                delta == positions[ppp.contract.symbol]["delta"]
            IN  /\ (ppp.ib.qualifies /\ ppp.ib.modelGreeks # None)
                      => delta = ppp.ib.modelGreeks.delta
                /\ (ppp.ib.qualifies /\ ppp.ib.modelGreeks = None) => delta = -99
                /\ ~ppp.ib.qualifies => delta = -999

\* A pass wrote -99 for a call that resolved without model greeks.
C21_Witness ==
    /\ pc = "adjust"
    /\ \E i \in OptionItems :
        /\ run.port[i].ib = MarketData(TRUE, None)
        /\ positions[run.port[i].contract.symbol]["delta"] = -99


\* ------------------------------------------ claims on the trading functions
\* The position of the ticker sym over all its entries of security type type.
RECURSIVE NetPosition(_, _, _)
NetPosition(pos, type, sym) ==
    IF pos = <<>> THEN 0
    ELSE (IF Head(pos).contract.type = type /\ Head(pos).contract.symbol = sym
          THEN Head(pos).position ELSE 0)
         + NetPosition(Tail(pos), type, sym)

\* The account is not short the stock of sym, and holds 100 shares for every
\* call of sym it is short.
Covered(pos, sym) ==
    /\ NetPosition(pos, "Stock", sym) >= 0
    /\ NetPosition(pos, "Stock", sym) + 100 * NetPosition(pos, "Option", sym) >= 0

\* C22: after a call of sell_stock on an account that was not short the stock
\* and had every short call covered, the account is still not short the stock
\* and holds no uncovered short call.
C22_SellLeavesCallsCovered ==
    (last.fn = "sell_stock" /\ Covered(last.before, last.args.mystock))
        => Covered(ib_positions, last.args.mystock)

\* C23: when covered_call returned True it placed one sell order for exactly
\* mycalls contracts of a call, the shares covered the short calls held and
\* the new ones, and with auto_flag the ticker had no option position.
C23_CoveredCallSellsMycalls ==
    (last.fn = "covered_call" /\ last.ret = "True")
        => /\ Len(last.trades) = 1
           /\ last.trades[1].action = "SELL"
           /\ last.trades[1].contract.type = "Option"
           /\ last.trades[1].totalQuantity = last.args.mycalls
           /\ NetPosition(last.before, "Stock", last.args.mystock)
                + 100 * NetPosition(last.before, "Option", last.args.mystock)
                >= 100 * last.args.mycalls
           /\ last.args.auto_flag
                => EntriesOf(last.before, "Option", last.args.mystock) = <<>>

\* C25: when rollover placed its combination order, the ticker was short at
\* least mycalls calls and held at least 100 x mycalls shares, with auto_flag
\* today was the expiration of the held call, without force_flag the held
\* call was in the money, and the order rolls exactly mycalls contracts.
C25_RolloverRollsMycalls ==
    (last.fn = "rollover" /\ last.trades # <<>>)
        => LET a == last.args
               held == last.trades[1].contract.comboLegs[1].contract
           IN  /\ Len(last.trades) = 1
               /\ NetPosition(last.before, "Option", a.mystock) <= -a.mycalls
               /\ NetPosition(last.before, "Stock", a.mystock) >= 100 * a.mycalls
               /\ a.auto_flag => Today = held.lastTradeDateOrContractMonth
               /\ ~a.force_flag => a.stockval >= held.strike
               /\ last.trades[1].totalQuantity = a.mycalls

\* C26: called on an account whose short calls are covered, close_position
\* places the order that sells the stock only for a positive position and
\* after every short call of the ticker was bought back, and after each of
\* its orders every short call still held is covered.
C26_CloseKeepsCallsCovered ==
    (last.fn = "close_position" /\ Covered(last.before, last.args.mystock))
        => \A i \in 1..Len(last.trades) :
            LET t == last.trades[i]
                sofar == IF i = 1 THEN last.before ELSE last.trades[i - 1].positions
            IN  /\ Covered(t.positions, last.args.mystock)
                /\ t.contract.type = "Stock"
                    => /\ t.action = "SELL"
                       /\ NetPosition(sofar, "Stock", last.args.mystock) > 0
                       /\ NetPosition(sofar, "Option", last.args.mystock) >= 0

\* C24: the call that buy_write and rollover write is the one whose delta is
\* nearest to the target among all the candidates, the one a scan of the
\* whole list selects, whatever the deltas of the candidates are.
C24_StrikeIsNearestOfAll ==
    LET a == last.args
        n == Len(ContractsOf(a.chain, a.mystock, a.myexpiration))
    IN  (/\ last.fn \in {"buy_write", "rollover"}
         /\ last.trades # <<>>
         /\ ~GreeksMissing(a.chain, n))
            => last.trades[1].contract.comboLegs[2].contract
                 = ContractsOf(a.chain, a.mystock, a.myexpiration)[FullScan(a.chain, n)]

\* ------------------------------------------------- claims on a trader run
\* C30: no order of a run ends the run: a run that passed the hours test is
\* never ended by exit() or by an exception of one of its orders, so every
\* order is handled and the run reaches the trades log.
C30_NoOrderEndsTheRun == trader.pc \notin {"exited", "raised"}

=============================================================================
